---- MODULE Spec2Model ----
(***************************************************************************)
(* Verification model of the Google Ads "Search terms" CSV report parser   *)
(* (parseSearchTermsCsv.js) and of the metric column detection of the      *)
(* report table (ReportTable.jsx).                                         *)
(*                                                                         *)
(* A JavaScript string is a sequence of characters.  An ASCII character is *)
(* the one-character string holding it; any other code point is the token  *)
(* "uXXXX" of its hexadecimal number (u0438 is CYRILLIC SMALL LETTER I,    *)
(* uFEFF the byte order mark, u2014 the em dash).                          *)
(***************************************************************************)
EXTENDS Integers, Sequences, FiniteSets, TLC

VARIABLES
    pc,             \* where the operation under way stands
    header,         \* the column labels handed to a detection function, as first given
    shuffled,       \* the same labels in the order they are handed over now
    metrics,        \* ReportTable: the result of detectMetricColumnsStrong
    fields,         \* the parser's searchTerm / campaign / adGroup column names
    file,           \* parseSearchTermsCsv: what the tabular decoder yields for the file's text
    headerRowIndex, \* parseSearchTermsCsv: the result of findHeaderRowIndex (rows counted from 0)
    report,         \* parseSearchTermsCsv: the Report returned
    origin,         \* for each row of the Report, the table row it was made from (0: the meta row)
    totalsIn,       \* sortTotals: the total rows handed over
    orderedTotals,  \* sortTotals: the rows returned
    preamble,       \* extractDateRange: the preamble lines handed over
    extracted,      \* extractDateRange: the result
    cell,           \* parseMetricNumber: the value handed over
    metricNumber,   \* parseMetricNumber: the result
    propRows,       \* ReportTable: the rows of the report given to the table
    filterText,     \* ReportTable: the text of the filter box
    sortKey,        \* ReportTable: the metric sorted by, "none" for null
    sortDir,        \* ReportTable: "desc", "asc", "none" for null
    visible,        \* ReportTable: visibleRows, the rows shown
    invFile,        \* for each invocation of parseSearchTermsCsv, its argument
    invPc,          \* for each invocation, where it stands
    invReport,      \* for each invocation, the Report it returned
    state,          \* App: the state the reducer keeps (report, negatives, ui)
    memoCampaigns,  \* App: campaigns, the memoized list of the campaigns of the report's rows
    effectPending   \* App: the effect on the selected campaign has yet to run for the last render

detectVars == <<header, shuffled, metrics, fields>>

parseVars == <<file, headerRowIndex, report, origin>>

totalsVars == <<totalsIn, orderedTotals>>

dateVars == <<preamble, extracted>>

numberVars == <<cell, metricNumber>>

tableVars == <<propRows, filterText, sortKey, sortDir, visible>>

callVars == <<invFile, invPc, invReport>>

appVars == <<state, memoCampaigns, effectPending>>

\* What the application leaves alone
nonAppVars == <<pc, header, shuffled, metrics, fields, file, headerRowIndex, report, origin, totalsIn, orderedTotals,
                preamble, extracted, cell, metricNumber, propRows, filterText, sortKey, sortDir, visible,
                invFile, invPc, invReport>>

\* What the assembler, the column detection and sortTotals leave alone
viewVars == <<dateVars, numberVars, tableVars, callVars, appVars>>

vars == <<pc, header, shuffled, metrics, fields, file, headerRowIndex, report, origin, totalsIn, orderedTotals,
          preamble, extracted, cell, metricNumber, propRows, filterText, sortKey, sortDir, visible,
          invFile, invPc, invReport, state, memoCampaigns, effectPending>>

(***************************************************************************)
(* Characters and the String methods the program calls                     *)
(***************************************************************************)

UpperLatin == <<
    "A", "B", "C", "D", "E", "F", "G", "H", "I", "J", "K", "L", "M",
    "N", "O", "P", "Q", "R", "S", "T", "U", "V", "W", "X", "Y", "Z" >>

LowerLatin == <<
    "a", "b", "c", "d", "e", "f", "g", "h", "i", "j", "k", "l", "m",
    "n", "o", "p", "q", "r", "s", "t", "u", "v", "w", "x", "y", "z" >>

\* U+0410..U+042F and U+0430..U+044F
UpperCyrillic == <<
    "u0410", "u0411", "u0412", "u0413", "u0414", "u0415", "u0416", "u0417",
    "u0418", "u0419", "u041A", "u041B", "u041C", "u041D", "u041E", "u041F",
    "u0420", "u0421", "u0422", "u0423", "u0424", "u0425", "u0426", "u0427",
    "u0428", "u0429", "u042A", "u042B", "u042C", "u042D", "u042E", "u042F" >>

LowerCyrillic == <<
    "u0430", "u0431", "u0432", "u0433", "u0434", "u0435", "u0436", "u0437",
    "u0438", "u0439", "u043A", "u043B", "u043C", "u043D", "u043E", "u043F",
    "u0440", "u0441", "u0442", "u0443", "u0444", "u0445", "u0446", "u0447",
    "u0448", "u0449", "u044A", "u044B", "u044C", "u044D", "u044E", "u044F" >>

Digits == {"0", "1", "2", "3", "4", "5", "6", "7", "8", "9"}

Range(s) == {s[i] : i \in DOMAIN s}

\* The character class [A-Za-z\u0410-\u042F\u0430-\u044F] of the date pattern
Letters == Range(UpperLatin) \cup Range(LowerLatin) \cup Range(UpperCyrillic) \cup Range(LowerCyrillic)

\* WhiteSpace of ECMAScript (what trim() removes and \s matches) among the
\* characters used here: space, tab, no-break space, byte order mark.
WhiteSpace == {" ", "u0009", "u00A0", "uFEFF"}

\* The character class [-\u2013\u2014]: hyphen, en dash, em dash
Dashes == {"-", "u2013", "u2014"}

BOM == "uFEFF"

LowerMap == [c \in Range(UpperLatin) \cup Range(UpperCyrillic) |->
    IF c \in Range(UpperLatin)
    THEN LowerLatin[CHOOSE i \in DOMAIN UpperLatin : UpperLatin[i] = c]
    ELSE LowerCyrillic[CHOOSE i \in DOMAIN UpperCyrillic : UpperCyrillic[i] = c]]

toLowerCase(s) == [i \in DOMAIN s |-> IF s[i] \in DOMAIN LowerMap THEN LowerMap[s[i]] ELSE s[i]]

RECURSIVE trimStart(_)
trimStart(s) == IF s # <<>> /\ Head(s) \in WhiteSpace THEN trimStart(Tail(s)) ELSE s

RECURSIVE trimEnd(_)
trimEnd(s) == IF s # <<>> /\ s[Len(s)] \in WhiteSpace THEN trimEnd(SubSeq(s, 1, Len(s) - 1)) ELSE s

trim(s) == trimEnd(trimStart(s))

startsWith(s, p) == Len(p) <= Len(s) /\ SubSeq(s, 1, Len(p)) = p

\* s.includes(sub)
includes(s, sub) == \E i \in 0..(Len(s) - Len(sub)) : SubSeq(s, i + 1, i + Len(sub)) = sub

\* s.indexOf(c) for a single character, 1-based; 0 when absent
indexOfChar(s, c) == IF \E i \in DOMAIN s : s[i] = c THEN CHOOSE i \in DOMAIN s : s[i] = c /\ \A j \in 1..(i - 1) : s[j] # c ELSE 0

\* The position after the run of white space that starts at position i (\s*)
RECURSIVE skipWs(_, _)
skipWs(s, i) == IF i <= Len(s) /\ s[i] \in WhiteSpace THEN skipWs(s, i + 1) ELSE i

\* The absent value (null / undefined) where a string is expected: no string
\* holds the token "null", which is no character.
null == <<"null">>

(***************************************************************************)
(* ReportTable.jsx: strong metric column detection                         *)
(***************************************************************************)

norm(s) == toLowerCase(trim(s))

\* /cost\s*\/\s*conv/.test(k)
reCostSlashConv(k) ==
    \E i \in 1..Len(k) :
        /\ startsWith(SubSeq(k, i, Len(k)), <<"c","o","s","t">>)
        /\ LET j == skipWs(k, i + 4)
           IN  /\ j <= Len(k) /\ k[j] = "/"
               /\ startsWith(SubSeq(k, skipWs(k, j + 1), Len(k)), <<"c","o","n","v">>)

\* /^<word>\s*\(.+\)$/.test(k)
reWordParen(k, word) ==
    /\ startsWith(k, word)
    /\ LET j == skipWs(k, Len(word) + 1)
       IN  /\ j <= Len(k) /\ k[j] = "("
           /\ k[Len(k)] = ")"
           /\ Len(k) >= j + 2

isCostPerConvKey(k) ==
    \/ reCostSlashConv(k)
    \/ includes(k, <<"c","o","s","t","/","c","o","n","v">>)
    \/ includes(k, <<"c","o","s","t"," ","p","e","r"," ","c","o","n","v">>)
    \/ includes(k, <<"c","o","s","t"," ","p","e","r"," ","c","o","n","v","e","r","s","i","o","n">>)
    \/ includes(k, <<"c","p","a">>)
    \/ (includes(k, <<"u0441","u0442","u043E","u0438","u043C">>) /\ includes(k, <<"u043A","u043E","u043D","u0432">>))
    \/ (includes(k, <<"u0440","u0430","u0441","u0445","u043E","u0434">>) /\ includes(k, <<"u043A","u043E","u043D","u0432">>))

isConversionRateKey(k) ==
    \/ includes(k, <<"c","o","n","v","."," ","r","a","t","e">>)
    \/ includes(k, <<"c","o","n","v","e","r","s","i","o","n"," ","r","a","t","e">>)
    \/ includes(k, <<"u043A","u043E","u043D","u0432","."," ","u043A","u043E","u044D","u0444">>)
    \/ (includes(k, <<"u043A","u043E","u043D","u0432","u0435","u0440">>) /\ includes(k, <<"u043A","u043E","u044D","u0444">>))
    \/ includes(k, <<"%">>)

costPerConvScore(k) == IF isCostPerConvKey(k) THEN 100 ELSE 0

costScore(k) ==
    IF isCostPerConvKey(k) THEN 0
    ELSE IF k = <<"c","o","s","t">> THEN 120
    ELSE IF reWordParen(k, <<"c","o","s","t">>) THEN 115
    ELSE IF k = <<"u0440","u0430","u0441","u0445","u043E","u0434">> \/ reWordParen(k, <<"u0440","u0430","u0441","u0445","u043E","u0434">>) THEN 120
    ELSE IF k = <<"u0441","u0442","u043E","u0438","u043C","u043E","u0441","u0442","u044C">> \/ reWordParen(k, <<"u0441","u0442","u043E","u0438","u043C","u043E","u0441","u0442","u044C">>) THEN 120
    ELSE IF /\ includes(k, <<"c","o","s","t">>)
            /\ ~includes(k, <<"p","e","r">>)
            /\ ~includes(k, <<"c","o","n","v">>)
            /\ ~includes(k, <<"c","o","n","v","e","r","s","i","o","n">>)
            /\ ~includes(k, <<"r","a","t","e">>)
            /\ ~includes(k, <<"/">>) THEN 60
    ELSE IF /\ (includes(k, <<"u0440","u0430","u0441","u0445","u043E","u0434">>) \/ includes(k, <<"u0441","u0442","u043E","u0438","u043C","u043E","u0441","u0442","u044C">>))
            /\ ~includes(k, <<"u043A","u043E","u043D","u0432">>)
            /\ ~includes(k, <<"u043A","u043E","u044D","u0444">>)
            /\ ~includes(k, <<"/">>) THEN 60
    ELSE 0

imprScore(k) ==
    IF k = <<"i","m","p","r",".">> \/ k = <<"i","m","p","r","e","s","s","i","o","n","s">> THEN 110
    ELSE IF startsWith(k, <<"i","m","p","r">>) THEN 80
    ELSE IF includes(k, <<"i","m","p","r","e","s","s","i","o","n">>) THEN 80
    ELSE IF includes(k, <<"u043F","u043E","u043A","u0430","u0437">>) THEN 90
    ELSE 0

clicksScore(k) ==
    IF k = <<"c","l","i","c","k","s">> \/ k = <<"c","l","i","c","k">> THEN 110
    ELSE IF includes(k, <<"c","l","i","c","k">>) THEN 80
    ELSE IF includes(k, <<"u043A","u043B","u0438","u043A">>) THEN 80
    ELSE 0

convScore(k) ==
    IF isConversionRateKey(k) THEN 0
    ELSE IF k = <<"c","o","n","v","e","r","s","i","o","n","s">> THEN 110
    ELSE IF k = <<"c","o","n","v">> \/ k = <<"c","o","n","v",".">> THEN 105
    ELSE IF includes(k, <<"c","o","n","v","e","r","s","i","o","n">>) THEN 80
    ELSE IF includes(k, <<"u043A","u043E","u043D","u0432","u0435","u0440","u0441">>) THEN 85
    ELSE 0

\* The roles, and the scoring function each is detected with
Roles == {"cost", "impr", "clicks", "conv", "costPerConv"}

scoreFn(role, k) ==
    CASE role = "cost" -> costScore(k)
      [] role = "impr" -> imprScore(k)
      [] role = "clicks" -> clicksScore(k)
      [] role = "conv" -> convScore(k)
      [] role = "costPerConv" -> costPerConvScore(k)

\* The loop of pickBestColumn over columns[i..]: best and bestScore so far
RECURSIVE pickBestFrom(_, _, _, _, _)
pickBestFrom(columns, role, i, best, bestScore) ==
    IF i > Len(columns) THEN best
    ELSE LET score == scoreFn(role, norm(columns[i]))
         IN  IF score > bestScore
             THEN pickBestFrom(columns, role, i + 1, columns[i], score)
             ELSE pickBestFrom(columns, role, i + 1, best, bestScore)

pickBestColumn(columns, role) == pickBestFrom(columns, role, 1, null, 0)

detectMetricColumnsStrong(columns) == [role \in Roles |-> pickBestColumn(columns, role)]


(***************************************************************************)
(* parseSearchTermsCsv.js: header keys and column roles                    *)
(***************************************************************************)

\* s.replace(/^\uFEFF/, "")
stripBom(s) == IF s # <<>> /\ Head(s) = BOM THEN Tail(s) ELSE s

normalizeHeader(h) == toLowerCase(trim(stripBom(h)))

searchTermExactCandidates == {
    <<"s","e","a","r","c","h"," ","t","e","r","m">>,
    <<"s","e","a","r","c","h"," ","t","e","r","m","s">>,
    <<"c","u","s","t","o","m","e","r"," ","s","e","a","r","c","h"," ","t","e","r","m">>,
    <<"s","e","a","r","c","h"," ","q","u","e","r","y">>,
    <<"q","u","e","r","i","e","s">>,
    <<"u043F","u043E","u0438","u0441","u043A","u043E","u0432","u044B","u0439"," ","u0437","u0430","u043F","u0440","u043E","u0441">>,
    <<"u043F","u043E","u0438","u0441","u043A","u043E","u0432","u044B","u0435"," ","u0437","u0430","u043F","u0440","u043E","u0441","u044B">>,
    <<"u043F","u043E","u0438","u0441","u043A","u043E","u0432","u044B","u0439"," ","u0442","u0435","u0440","u043C","u0438","u043D">>,
    <<"u043F","u043E","u0438","u0441","u043A","u043E","u0432","u044B","u0435"," ","u0442","u0435","u0440","u043C","u0438","u043D","u044B">>,
    <<"u043F","u043E","u0438","u0441","u043A","u043E","u0432","u0430","u044F"," ","u0444","u0440","u0430","u0437","u0430">>,
    <<"u043F","u043E","u0438","u0441","u043A","u043E","u0432","u044B","u0435"," ","u0444","u0440","u0430","u0437","u044B">> }

searchTermEnHeuristic(key) ==
    includes(key, <<"s","e","a","r","c","h">>) /\ (includes(key, <<"t","e","r","m">>) \/ includes(key, <<"q","u","e","r","y">>))

searchTermRuHeuristic(key) ==
    /\ (includes(key, <<"u043F","u043E","u0438","u0441","u043A">>) \/ includes(key, <<"u043F","u043E","u0438","u0441","u043A","u043E","u0432">>))
    /\ (includes(key, <<"u0437","u0430","u043F","u0440","u043E","u0441">>) \/ includes(key, <<"u0442","u0435","u0440","u043C","u0438","u043D">>) \/ includes(key, <<"u0444","u0440","u0430","u0437">>))

isSearchTermHeaderKey(key) ==
    \/ key \in searchTermExactCandidates
    \/ searchTermEnHeuristic(key)
    \/ searchTermRuHeuristic(key)

\* The normalized labels: cols.map((c) => ({ original: c, key: normalizeHeader(c) }))
keyOf(cols, i) == normalizeHeader(cols[i])

\* Array.prototype.find: hits are the positions whose key satisfies the
\* predicate; the original label of the first of them, null (undefined)
\* when there is none
find(cols, hits) ==
    IF hits = {} THEN null
    ELSE cols[CHOOSE i \in hits : \A j \in hits : i <= j]

exactHits(cols, candidates) == {i \in DOMAIN cols : keyOf(cols, i) \in candidates}

enHits(cols) == {i \in DOMAIN cols : searchTermEnHeuristic(keyOf(cols, i))}

ruHits(cols) == {i \in DOMAIN cols : searchTermRuHeuristic(keyOf(cols, i))}

defaultSearchTerm == <<"S","e","a","r","c","h"," ","t","e","r","m">>

\* detectSearchTermColumn without the dictionary: the heuristics alone decide
detectSearchTermColumnNoExact(cols) ==
    IF cols = <<>> THEN defaultSearchTerm
    ELSE LET enHeuristic == find(cols, enHits(cols))
             ruHeuristic == find(cols, ruHits(cols))
         IN  IF enHeuristic # null THEN enHeuristic
             ELSE IF ruHeuristic # null THEN ruHeuristic
             ELSE cols[1]

detectSearchTermColumn(cols) ==
    IF cols = <<>> THEN defaultSearchTerm
    ELSE LET exact == find(cols, exactHits(cols, searchTermExactCandidates))
             enHeuristic == find(cols, enHits(cols))
             ruHeuristic == find(cols, ruHits(cols))
         IN  IF exact # null THEN exact
             ELSE IF enHeuristic # null THEN enHeuristic
             ELSE IF ruHeuristic # null THEN ruHeuristic
             ELSE cols[1]

campaignExactCandidates == {
    <<"c","a","m","p","a","i","g","n">>,
    <<"c","a","m","p","a","i","g","n"," ","n","a","m","e">>,
    <<"c","a","m","p","a","i","g","n","s">>,
    <<"u043A","u0430","u043C","u043F","u0430","u043D","u0438","u044F">>,
    <<"u043A","u0430","u043C","u043F","u0430","u043D","u0438","u0438">>,
    <<"u0438","u043C","u044F"," ","u043A","u0430","u043C","u043F","u0430","u043D","u0438","u0438">> }

detectCampaignColumn(cols) ==
    IF cols = <<>> THEN null
    ELSE LET exact == find(cols, exactHits(cols, campaignExactCandidates))
         IN  IF exact # null THEN exact
             ELSE find(cols, {i \in DOMAIN cols :
                    includes(keyOf(cols, i), <<"c","a","m","p","a","i","g","n">>) \/ includes(keyOf(cols, i), <<"u043A","u0430","u043C","u043F","u0430","u043D">>)})

adGroupExactCandidates == {
    <<"a","d"," ","g","r","o","u","p">>,
    <<"a","d","g","r","o","u","p">>,
    <<"a","d"," ","g","r","o","u","p"," ","n","a","m","e">>,
    <<"a","d"," ","g","r","o","u","p","s">>,
    <<"u0433","u0440","u0443","u043F","u043F","u0430"," ","u043E","u0431","u044A","u044F","u0432","u043B","u0435","u043D","u0438","u0439">>,
    <<"u0433","u0440","u0443","u043F","u043F","u044B"," ","u043E","u0431","u044A","u044F","u0432","u043B","u0435","u043D","u0438","u0439">>,
    <<"u0433","u0440","u0443","u043F","u043F","u0430">> }

\* detectAdGroupColumn without its substring heuristic
detectAdGroupColumnExactOnly(cols) ==
    IF cols = <<>> THEN null
    ELSE find(cols, exactHits(cols, adGroupExactCandidates))

detectAdGroupColumn(cols) ==
    IF cols = <<>> THEN null
    ELSE LET exact == find(cols, exactHits(cols, adGroupExactCandidates))
         IN  IF exact # null THEN exact
             ELSE find(cols, {i \in DOMAIN cols :
                    LET k == keyOf(cols, i)
                    IN  \/ includes(k, <<"a","d"," ","g","r","o","u","p">>)
                        \/ includes(k, <<"a","d","g","r","o","u","p">>)
                        \/ (includes(k, <<"u0433","u0440","u0443","u043F","u043F">>) /\ includes(k, <<"u043E","u0431","u044A","u044F","u0432">>))})

detectFields(cols) ==
    [searchTerm |-> detectSearchTermColumn(cols),
     campaign |-> detectCampaignColumn(cols),
     adGroup |-> detectAdGroupColumn(cols)]

(***************************************************************************)
(* JavaScript values and objects                                           *)
(*                                                                         *)
(* A row is an object: a function from its keys (strings) to values.  A    *)
(* value is a string, a number or an array of strings, told apart by type. *)
(* {a: 1, ...r, b: 2} is Spread(<<Obj1(a, 1), r, Obj1(b, 2)>>): of two      *)
(* sources holding a key the later one gives the value.                    *)
(***************************************************************************)

Str(s) == [type |-> "string", num |-> 0, str |-> s, items |-> <<>>]

Num(n) == [type |-> "number", num |-> n, str |-> <<>>, items |-> <<>>]

Arr(xs) == [type |-> "array", num |-> 0, str |-> <<>>, items |-> xs]

undefined == [type |-> "undefined", num |-> 0, str |-> <<>>, items |-> <<>>]

DigitChars == <<"0", "1", "2", "3", "4", "5", "6", "7", "8", "9">>

\* String(n) for a number n >= 0
RECURSIVE numberToString(_)
numberToString(n) ==
    IF n < 10 THEN <<DigitChars[n + 1]>>
    ELSE numberToString(n \div 10) \o <<DigitChars[(n % 10) + 1]>>

\* array.join(sep)
RECURSIVE join(_, _)
join(xs, sep) ==
    IF xs = <<>> THEN <<>>
    ELSE IF Len(xs) = 1 THEN xs[1]
    ELSE xs[1] \o sep \o join(Tail(xs), sep)

\* String(v ?? "")
String(v) ==
    CASE v.type = "string" -> v.str
      [] v.type = "number" -> numberToString(v.num)
      [] v.type = "array" -> join(v.items, <<",">>)
      [] OTHER -> <<>>

emptyObject == [k \in {} |-> undefined]

Obj1(key, value) == [k \in {key} |-> value]

\* obj[key], undefined for a key the object does not hold
Get(obj, key) == IF key \in DOMAIN obj THEN obj[key] ELSE undefined

\* a ?? b
orElse(a, b) == IF a.type = "undefined" THEN b ELSE a

RECURSIVE Spread(_)
Spread(objs) ==
    IF objs = <<>> THEN emptyObject
    ELSE LET last == objs[Len(objs)]
             rest == Spread(SubSeq(objs, 1, Len(objs) - 1))
         IN  [k \in DOMAIN last \cup DOMAIN rest |-> IF k \in DOMAIN last THEN last[k] ELSE rest[k]]

\* The keys the assembler writes into every row
K_rowId == <<"_","_","r","o","w","I","d">>

K_rowType == <<"_","_","r","o","w","T","y","p","e">>

K_searchTerm == <<"s","e","a","r","c","h","T","e","r","m">>

K_campaign == <<"c","a","m","p","a","i","g","n">>

K_adGroup == <<"a","d","G","r","o","u","p">>

T_meta == <<"m","e","t","a">>

T_data == <<"d","a","t","a">>

T_total == <<"t","o","t","a","l">>

metaRowId == <<"m","e","t","a","-","d","a","t","e","-","r","a","n","g","e">>

\* Array.prototype.filter: kept are the positions whose element satisfies
\* the predicate; their elements in order
filter(xs, kept) ==
    [k \in 1..Cardinality(kept) |->
        xs[CHOOSE i \in kept : Cardinality({j \in kept : j < i}) = k - 1]]

\* xs.filter(Boolean) over strings: the non-empty ones
filterNonEmpty(xs) == filter(xs, {i \in DOMAIN xs : xs[i] # <<>>})

(***************************************************************************)
(* parseSearchTermsCsv.js: header row, columns, rows                       *)
(***************************************************************************)

joinRowCells(row) ==
    LET cells == [i \in DOMAIN row |-> trim(row[i])]
    IN  trim(join(filterNonEmpty(cells), <<","," ">>))

normalizeColumns(headerCells) ==
    [i \in DOMAIN headerCells |->
        LET cleaned == trim(stripBom(headerCells[i]))
        IN  IF cleaned # <<>> THEN cleaned ELSE <<"C","o","l","u","m","n"," ">> \o numberToString(i)]

\* The assignments obj[columns[i]] = arr[i] ?? "" in the order of i: of two
\* columns with one name the later one gives the value
mapRowToObject(cols, cells) ==
    [k \in Range(cols) |->
        LET i == CHOOSE i \in DOMAIN cols : cols[i] = k /\ \A j \in DOMAIN cols : cols[j] = k => j <= i
        IN  IF i <= Len(cells) THEN Str(cells[i]) ELSE Str(<<>>)]

emptyObjectForColumns(cols) == [k \in Range(cols) |-> Str(<<>>)]

\* The loop of findHeaderRowIndex from row i on (rows are counted from 0)
RECURSIVE findHeaderRowFrom(_, _)
findHeaderRowFrom(rows, i) ==
    IF i >= Len(rows) THEN -1
    ELSE LET row == rows[i + 1]
         IN  IF Len(row) < 3 THEN findHeaderRowFrom(rows, i + 1)
             ELSE IF \E c \in DOMAIN row : isSearchTermHeaderKey(normalizeHeader(row[c])) THEN i
             ELSE findHeaderRowFrom(rows, i + 1)

\* findHeaderRowIndex taking a row of 2 cells for a header row
RECURSIVE findHeaderRowFromTwoCells(_, _)
findHeaderRowFromTwoCells(rows, i) ==
    IF i >= Len(rows) THEN -1
    ELSE LET row == rows[i + 1]
         IN  IF Len(row) < 2 THEN findHeaderRowFromTwoCells(rows, i + 1)
             ELSE IF \E c \in DOMAIN row : isSearchTermHeaderKey(normalizeHeader(row[c])) THEN i
             ELSE findHeaderRowFromTwoCells(rows, i + 1)

findHeaderRowIndexTwoCells(rows) == findHeaderRowFromTwoCells(rows, 0)

findHeaderRowIndex(rows) == findHeaderRowFrom(rows, 0)

(***************************************************************************)
(* parseSearchTermsCsv.js: total rows                                      *)
(***************************************************************************)

isTotalLabel(term) ==
    LET k == normalizeHeader(term)
    IN  startsWith(k, <<"t","o","t","a","l",":">>) \/ startsWith(k, <<"u0438","u0442","u043E","u0433","u043E",":">>) \/ startsWith(k, <<"u0432","u0441","u0435","u0433","u043E",":">>)

\* term.split(":"): one part when there is no colon; otherwise everything
\* after the first colon is parts.slice(1).join(":")
totalBucket(term) ==
    LET cleaned == trim(term)
        colon == indexOfChar(cleaned, ":")
    IN  IF colon = 0 THEN normalizeHeader(cleaned)
        ELSE normalizeHeader(trim(SubSeq(cleaned, colon + 1, Len(cleaned))))

totalsOrder == <<
    <<"p","e","r","f","o","r","m","a","n","c","e"," ","m","a","x">>,
    <<"d","i","s","p","l","a","y">>,
    <<"d","e","m","a","n","d"," ","g","e","n">>,
    <<"a","c","c","o","u","n","t">>,
    <<"f","i","l","t","e","r","e","d"," ","s","e","a","r","c","h"," ","t","e","r","m","s">>,
    <<"s","e","a","r","c","h">> >>

unknownRank == 999

\* The label sortTotals reads from a row
totalLabel(row, searchTermCol) ==
    String(orElse(Get(row, searchTermCol), orElse(Get(row, K_searchTerm), Str(<<>>))))

rank(row, searchTermCol) ==
    LET bucket == totalBucket(totalLabel(row, searchTermCol))
    IN  IF \E i \in DOMAIN totalsOrder : totalsOrder[i] = bucket
        THEN (CHOOSE i \in DOMAIN totalsOrder : totalsOrder[i] = bucket) - 1
        ELSE unknownRank

\* The collation order of String.prototype.localeCompare (root locale) over
\* the characters of lower-cased labels: white space, punctuation, symbols,
\* digits, Latin letters, Cyrillic letters.
collationOrder ==
    <<" ", "u00A0", "_", "-", "u2013", "u2014", ",", ";", ":", "!", "?", ".", "'", "(", ")", "[", "]",
      "{", "}", "@", "*", "/", "&", "#", "%", "+", "<", "=", ">", "|", "~", "$", "u20AC">>
    \o DigitChars \o LowerLatin \o LowerCyrillic

collationWeight == [c \in Range(collationOrder) |-> CHOOSE i \in DOMAIN collationOrder : collationOrder[i] = c]

weightOf(c) == IF c \in DOMAIN collationWeight THEN collationWeight[c] ELSE Len(collationOrder) + 1

\* a.localeCompare(b): negative, zero or positive
RECURSIVE localeCompare(_, _)
localeCompare(a, b) ==
    IF a = <<>> /\ b = <<>> THEN 0
    ELSE IF a = <<>> THEN -1
    ELSE IF b = <<>> THEN 1
    ELSE IF weightOf(Head(a)) # weightOf(Head(b)) THEN weightOf(Head(a)) - weightOf(Head(b))
    ELSE localeCompare(Tail(a), Tail(b))

\* The comparator of sortTotals without its secondary key
compareTotalsRankOnly(a, b, searchTermCol) == rank(a, searchTermCol) - rank(b, searchTermCol)

\* The comparator of sortTotals
compareTotals(a, b, searchTermCol) ==
    LET ra == rank(a, searchTermCol)
        rb == rank(b, searchTermCol)
    IN  IF ra # rb THEN ra - rb
        ELSE localeCompare(totalBucket(totalLabel(a, searchTermCol)), totalBucket(totalLabel(b, searchTermCol)))

\* Array.prototype.sort is stable: element x goes behind every element
\* already placed that does not compare greater than x.  order holds
\* positions of totalRows.
RECURSIVE insertSorted(_, _, _, _)
insertSorted(order, x, totalRows, searchTermCol) ==
    IF order = <<>> THEN <<x>>
    ELSE LET last == order[Len(order)]
         IN  IF compareTotals(totalRows[last], totalRows[x], searchTermCol) <= 0
             THEN Append(order, x)
             ELSE Append(insertSorted(SubSeq(order, 1, Len(order) - 1), x, totalRows, searchTermCol), last)

RECURSIVE sortOrderFrom(_, _, _, _)
sortOrderFrom(order, i, totalRows, searchTermCol) ==
    IF i > Len(totalRows) THEN order
    ELSE sortOrderFrom(insertSorted(order, i, totalRows, searchTermCol), i + 1, totalRows, searchTermCol)

\* The positions of totalRows in sorted order
sortTotalsOrder(totalRows, searchTermCol) == sortOrderFrom(<<>>, 1, totalRows, searchTermCol)

sortTotals(totalRows, searchTermCol) ==
    LET order == sortTotalsOrder(totalRows, searchTermCol)
    IN  [k \in DOMAIN order |-> totalRows[order[k]]]

(***************************************************************************)
(* parseSearchTermsCsv.js: date range of the preamble                      *)
(***************************************************************************)

\* The first position at or after i whose character is not in class
RECURSIVE runEnd(_, _, _)
runEnd(s, i, class) == IF i <= Len(s) /\ s[i] \in class THEN runEnd(s, i + 1, class) ELSE i

isDigitAt(s, i) == i >= 1 /\ i <= Len(s) /\ s[i] \in Digits

\* \d{1,2}\s+[A-Za-z...]+\s+\d{4} matched from position i: the position
\* after the match, 0 when there is no match.  The classes are disjoint, so
\* each run is taken whole.
matchDate(s, i) ==
    IF ~isDigitAt(s, i) THEN 0
    ELSE LET a == IF isDigitAt(s, i + 1) THEN i + 2 ELSE i + 1
             b == runEnd(s, a, WhiteSpace)
             c == runEnd(s, b, Letters)
             d == runEnd(s, c, WhiteSpace)
         IN  IF /\ b > a /\ c > b /\ d > c
                /\ \A n \in 0..3 : isDigitAt(s, d + n)
             THEN d + 4 ELSE 0

\* dateRangeRegex.test(l)
dateRangeRegex(l) ==
    \E i \in 1..Len(l) :
        LET e == matchDate(l, i)
        IN  /\ e # 0
            /\ LET j == skipWs(l, e)
               IN  /\ j <= Len(l) /\ l[j] \in Dashes
                   /\ matchDate(l, skipWs(l, j + 1)) # 0

\* /\d{4}/.test(l) && /[-...]/.test(l)
looseDateRange(l) ==
    /\ \E i \in 1..Len(l) : \A n \in 0..3 : isDigitAt(l, i + n)
    /\ \E i \in 1..Len(l) : l[i] \in Dashes

\* The first line that matches either pattern
extractDateRangeFirstEither(lines) ==
    LET candidates == filterNonEmpty([i \in DOMAIN lines |-> trim(lines[i])])
        either == filter(candidates, {i \in DOMAIN candidates :
                            dateRangeRegex(candidates[i]) \/ looseDateRange(candidates[i])})
    IN  IF either # <<>> THEN either[1] ELSE null

extractDateRange(lines) ==
    LET candidates == filterNonEmpty([i \in DOMAIN lines |-> trim(lines[i])])
        hit == filter(candidates, {i \in DOMAIN candidates : dateRangeRegex(candidates[i])})
        loose == filter(candidates, {i \in DOMAIN candidates : looseDateRange(candidates[i])})
    IN  IF hit # <<>> THEN hit[1]
        ELSE IF loose # <<>> THEN loose[1]
        ELSE null

(***************************************************************************)
(* The tabular decoder (Papa.parse), as far as the assembler reads its     *)
(* result.  A file is what the decoder yields for its text: the grid of    *)
(* cells of the pass without header, and the errors of the two passes.     *)
(* Empty lines are skipped, so no row of the grid is empty.  The pass with *)
(* header: true names the cells of every row after the first by the cells  *)
(* of the first; cells beyond the fields are kept under __parsed_extra.    *)
(***************************************************************************)

K_parsedExtra == <<"_","_","p","a","r","s","e","d","_","e","x","t","r","a">>

\* transformHeader: (h) => stripBom(String(h || "")).trim()
papaFields(data) ==
    IF data = <<>> THEN <<>>
    ELSE [i \in DOMAIN data[1] |-> trim(stripBom(data[1][i]))]

papaRow(parsedFields, cells) ==
    LET n == IF Len(cells) < Len(parsedFields) THEN Len(cells) ELSE Len(parsedFields)
        named == mapRowToObject(SubSeq(parsedFields, 1, n), cells)
    IN  IF Len(cells) > Len(parsedFields)
        THEN Spread(<<named, Obj1(K_parsedExtra, Arr(SubSeq(cells, Len(parsedFields) + 1, Len(cells))))>>)
        ELSE named

papaData(data) ==
    IF data = <<>> THEN <<>>
    ELSE [i \in 1..(Len(data) - 1) |-> papaRow(papaFields(data), data[i + 1])]

(***************************************************************************)
(* parseSearchTermsCsv.js: the assembler                                   *)
(***************************************************************************)

\* One warning for every error of the pass
parseWarningsAll(errors) ==
    [i \in DOMAIN errors |-> <<"C","S","V"," ","p","a","r","s","e"," ","w","a","r","n","i","n","g",":"," ">> \o errors[i].message]

\* `CSV parse warning: ${top?.message || "Unknown parsing issue"}`
parseWarnings(errors) ==
    IF errors = <<>> THEN <<>>
    ELSE <<<<"C","S","V"," ","p","a","r","s","e"," ","w","a","r","n","i","n","g",":"," ">> \o
            (IF errors[1].message # <<>> THEN errors[1].message ELSE <<"U","n","k","n","o","w","n"," ","p","a","r","s","i","n","g"," ","i","s","s","u","e">>)>>

\* a truthy string: neither null nor empty
truthy(s) == s # null /\ s # <<>>

\* searchTerm, campaign, adGroup as written over the columns of a row
derivedFields(r, searchTermCol, campaignCol, adGroupCol) ==
    Spread(<<
        Obj1(K_searchTerm, Str(String(orElse(Get(r, searchTermCol), Str(<<>>))))),
        Obj1(K_campaign, Str(IF truthy(campaignCol) THEN String(orElse(Get(r, campaignCol), Str(<<>>))) ELSE <<>>)),
        Obj1(K_adGroup, Str(IF truthy(adGroupCol) THEN String(orElse(Get(r, adGroupCol), Str(<<>>))) ELSE <<>>)) >>)

noReport ==
    [columns |-> <<>>, rows |-> <<>>,
     searchTermColumnName |-> null, campaignColumnName |-> null, adGroupColumnName |-> null,
     warnings |-> <<>>, meta |-> [preambleLines |-> <<>>, dateRange |-> null]]

\* parseSearchTermsCsv from line 40 on: the header row is scanRows[h] (h
\* counted from 0).  The result holds the Report and the origin of its rows.
assembleReport(scanRows, warnings, h) ==
    LET preambleLines == filterNonEmpty([i \in 1..h |-> joinRowCells(scanRows[i])])
        cols == normalizeColumns(scanRows[h + 1])
        tableRows == SubSeq(scanRows, h + 2, Len(scanRows))
        rawRows == [i \in DOMAIN tableRows |-> mapRowToObject(cols, tableRows[i])]
        searchTermCol == detectSearchTermColumn(cols)
        campaignCol == detectCampaignColumn(cols)
        adGroupCol == detectAdGroupColumn(cols)
        dateRange == extractDateRange(preambleLines)
        metaObj == Spread(<<emptyObjectForColumns(cols),
                            Obj1(IF truthy(searchTermCol) THEN searchTermCol ELSE cols[1], Str(dateRange))>>)
        metaRows ==
            IF truthy(dateRange)
            THEN << Spread(<<Obj1(K_rowId, Str(metaRowId)),
                             Obj1(K_rowType, Str(T_meta)),
                             metaObj,
                             Obj1(K_searchTerm, Str(dateRange)),
                             Obj1(K_campaign, Str(<<>>)),
                             Obj1(K_adGroup, Str(<<>>))>>) >>
            ELSE <<>>
        term(idx) == String(orElse(Get(rawRows[idx], searchTermCol), Str(<<>>)))
        rowOut(idx) ==
            Spread(<<Obj1(K_rowId, Num(idx)),
                     rawRows[idx],
                     derivedFields(rawRows[idx], searchTermCol, campaignCol, adGroupCol)>>)
        indices == [i \in DOMAIN rawRows |-> i]
        dataIdx == filter(indices, {i \in DOMAIN rawRows : ~isTotalLabel(term(i))})
        totalIdx == filter(indices, {i \in DOMAIN rawRows : isTotalLabel(term(i))})
        dataRows == [k \in DOMAIN dataIdx |-> Spread(<<rowOut(dataIdx[k]), Obj1(K_rowType, Str(T_data))>>)]
        totalRows == [k \in DOMAIN totalIdx |-> Spread(<<rowOut(totalIdx[k]), Obj1(K_rowType, Str(T_total))>>)]
        order == sortTotalsOrder(totalRows, searchTermCol)
    IN  [report |->
            [columns |-> cols,
             rows |-> metaRows \o dataRows \o sortTotals(totalRows, searchTermCol),
             searchTermColumnName |-> searchTermCol,
             campaignColumnName |-> campaignCol,
             adGroupColumnName |-> adGroupCol,
             warnings |-> warnings,
             meta |-> [preambleLines |-> preambleLines,
                       dateRange |-> IF truthy(dateRange) THEN dateRange ELSE null]],
         origin |-> [k \in DOMAIN metaRows |-> 0] \o dataIdx \o [k \in DOMAIN order |-> totalIdx[order[k]]]]

\* The columns of the fallback without the synthesized name
simpleColumnsRaw(rawCols, searchTermCol) == rawCols

\* columns: rawCols.length ? rawCols : [searchTermCol || "Search term"]
simpleColumns(rawCols, searchTermCol) ==
    IF rawCols # <<>> THEN rawCols
    ELSE <<IF truthy(searchTermCol) THEN searchTermCol ELSE defaultSearchTerm>>

\* parseSimpleHeaderCsv over the header: true pass of the same text
parseSimpleHeaderCsv(f, inheritedWarnings) ==
    LET rawRows == papaData(f.data)
        rawCols == papaFields(f.data)
        warnings == inheritedWarnings \o parseWarnings(f.headerErrors)
        searchTermCol == detectSearchTermColumn(rawCols)
        campaignCol == detectCampaignColumn(rawCols)
        adGroupCol == detectAdGroupColumn(rawCols)
        rowOf(i) ==
            LET normalizedRow == rawRows[i]
                term == String(orElse(Get(normalizedRow, searchTermCol), Str(<<>>)))
            IN  Spread(<<Obj1(K_rowId, Num(i)),
                         Obj1(K_rowType, Str(IF isTotalLabel(term) THEN T_total ELSE T_data)),
                         normalizedRow,
                         derivedFields(normalizedRow, searchTermCol, campaignCol, adGroupCol)>>)
    IN  [report |->
            [columns |-> simpleColumns(rawCols, searchTermCol),
             rows |-> [i \in DOMAIN rawRows |-> rowOf(i)],
             searchTermColumnName |-> searchTermCol,
             campaignColumnName |-> campaignCol,
             adGroupColumnName |-> adGroupCol,
             warnings |-> warnings,
             meta |-> [preambleLines |-> <<>>, dateRange |-> null]],
         origin |-> [i \in DOMAIN rawRows |-> i]]

\* parseSearchTermsCsv once the text is read
parseText(f) ==
    LET scanRows == f.data
        warnings == parseWarnings(f.scanErrors)
        h == findHeaderRowIndex(scanRows)
    IN  IF h = -1 THEN parseSimpleHeaderCsv(f, warnings)
        ELSE assembleReport(scanRows, warnings, h)

noFile == [data |-> <<>>, scanErrors |-> <<>>, headerErrors |-> <<>>]

(***************************************************************************)
(* ReportTable.jsx: parseMetricNumber.  A number is NaN, -Infinity or a    *)
(* finite decimal (-1)^neg * mantissa / 10^scale, kept without trailing    *)
(* zeros of the fraction so that equal numbers are equal records; -0 and 0 *)
(* are one number, as they are under === and >.  The texts read here have  *)
(* far fewer than 15 digits, so the double that parseFloat yields stands   *)
(* for the decimal exactly as far as === and > can tell.                   *)
(***************************************************************************)

nullValue == [type |-> "null", num |-> 0, str |-> <<>>, items |-> <<>>]

NaN == [kind |-> "NaN", neg |-> FALSE, mantissa |-> 0, scale |-> 0]

NEGATIVE_INFINITY == [kind |-> "-Infinity", neg |-> TRUE, mantissa |-> 0, scale |-> 0]

RECURSIVE Finite(_, _, _)
Finite(neg, mantissa, scale) ==
    IF scale > 0 /\ mantissa % 10 = 0 THEN Finite(neg, mantissa \div 10, scale - 1)
    ELSE [kind |-> "finite", neg |-> neg /\ mantissa # 0, mantissa |-> mantissa, scale |-> scale]

\* The number a run of decimal digits writes
RECURSIVE digitsValue(_)
digitsValue(ds) ==
    IF ds = <<>> THEN 0
    ELSE 10 * digitsValue(SubSeq(ds, 1, Len(ds) - 1)) + (indexOfChar(DigitChars, ds[Len(ds)]) - 1)

\* Number.parseFloat(s) for a text of digits, ".", "," and "-" (no exponent
\* and no "Infinity" can be left in it): white space, a sign, digits, a dot,
\* digits; the longest such prefix is read, NaN when it holds no digit.
parseFloat(s) ==
    LET t == trimStart(s)
        a == IF t # <<>> /\ t[1] \in {"-", "+"} THEN 2 ELSE 1
        b == runEnd(t, a, Digits)
        c == IF b <= Len(t) /\ t[b] = "." THEN runEnd(t, b + 1, Digits) ELSE b
        intDigits == SubSeq(t, a, b - 1)
        fracDigits == IF c > b THEN SubSeq(t, b + 1, c - 1) ELSE <<>>
    IN  IF intDigits = <<>> /\ fracDigits = <<>> THEN NaN
        ELSE Finite(t[1] = "-", digitsValue(intDigits \o fracDigits), Len(fracDigits))

\* Number.isFinite(n)
isFinite(n) == n.kind = "finite"

safeParseFloatUnchecked(s) == parseFloat(s)

safeParseFloat(s) ==
    LET n == parseFloat(s)
    IN  IF isFinite(n) THEN n ELSE NEGATIVE_INFINITY

\* s.replace(/[^\d,.\-]/g, "")
keepNumeric(s) == filter(s, {i \in DOMAIN s : s[i] \in Digits \cup {",", ".", "-"}})

\* s.lastIndexOf(c), counted from 0; -1 when absent
lastIndexOf(s, c) ==
    IF \E i \in DOMAIN s : s[i] = c
    THEN (CHOOSE i \in DOMAIN s : s[i] = c /\ \A j \in (i + 1)..Len(s) : s[j] # c) - 1
    ELSE -1

\* s.split(c) for a single character c
RECURSIVE split(_, _)
split(s, c) ==
    LET i == indexOfChar(s, c)
    IN  IF i = 0 THEN <<s>>
        ELSE <<SubSeq(s, 1, i - 1)>> \o split(SubSeq(s, i + 1, Len(s)), c)

\* s.replace(c, d) for single characters: the first c becomes d
replaceFirst(s, c, d) ==
    LET i == indexOfChar(s, c)
    IN  IF i = 0 THEN s ELSE [s EXCEPT ![i] = d]

\* Both "." and "," present (lines 41-47)
bothSeparators(s, lastDot, lastComma) ==
    LET decSep == IF lastDot > lastComma THEN "." ELSE ","
        thouSep == IF decSep = "." THEN "," ELSE "."
        t == join(split(s, thouSep), <<>>)
    IN  safeParseFloat(IF decSep = "," THEN replaceFirst(t, ",", ".") ELSE t)

singleSeparatorUpTo3(s, sep, last) ==
    LET after == Len(s) - last - 1
        parts == split(s, sep)
    IN  IF after >= 1 /\ after <= 3
        THEN safeParseFloat(join(SubSeq(parts, 1, Len(parts) - 1), <<>>) \o <<".">> \o parts[Len(parts)])
        ELSE safeParseFloat(join(parts, <<>>))

\* Only "," present (lines 50-62) or only "." present (lines 65-77); last is
\* its last index
singleSeparator(s, sep, last) ==
    LET after == Len(s) - last - 1
        parts == split(s, sep)
    IN  IF after >= 1 /\ after <= 2
        THEN safeParseFloat(join(SubSeq(parts, 1, Len(parts) - 1), <<>>) \o <<".">> \o parts[Len(parts)])
        ELSE safeParseFloat(join(parts, <<>>))

parseMetricNumber(v) ==
    IF v.type \in {"null", "undefined"} THEN NEGATIVE_INFINITY
    ELSE LET s0 == trim(String(v))
             s == keepNumeric(s0)
             lastDot == lastIndexOf(s, ".")
             lastComma == lastIndexOf(s, ",")
         IN  IF s0 = <<>> \/ s0 = <<"u2014">> \/ s0 = <<"-">> THEN NEGATIVE_INFINITY
             ELSE IF lastDot # -1 /\ lastComma # -1 THEN bothSeparators(s, lastDot, lastComma)
             ELSE IF lastComma # -1 /\ lastDot = -1 THEN singleSeparator(s, ",", lastComma)
             ELSE IF lastDot # -1 /\ lastComma = -1 THEN singleSeparator(s, ".", lastDot)
             ELSE safeParseFloat(s)

(***************************************************************************)
(* ReportTable.jsx: the rows shown (visibleRows) and the sort state        *)
(***************************************************************************)

RECURSIVE pow10(_)
pow10(n) == IF n = 0 THEN 1 ELSE 10 * pow10(n - 1)

signed(n) == IF n.neg THEN 0 - n.mantissa ELSE n.mantissa

\* av > bv for numbers that are finite or -Infinity
greater(av, bv) ==
    IF av.kind # "finite" THEN FALSE
    ELSE IF bv.kind # "finite" THEN TRUE
    ELSE signed(av) * pow10(bv.scale) > signed(bv) * pow10(av.scale)

\* The comparator without the three lines on missing values
compareMetricNoMissing(av, bv, mul) ==
    IF av = bv THEN 0
    ELSE IF greater(av, bv) THEN mul ELSE 0 - mul

\* The comparator of the sort of the data rows from line 305 on; av and bv
\* are the values parsed at lines 302-303
compareMetric(av, bv, mul) ==
    LET aMiss == av = NEGATIVE_INFINITY
        bMiss == bv = NEGATIVE_INFINITY
    IN  IF aMiss /\ bMiss THEN 0
        ELSE IF aMiss THEN 1
        ELSE IF bMiss THEN -1
        ELSE IF av = bv THEN 0
        ELSE IF greater(av, bv) THEN mul ELSE 0 - mul

\* Array.prototype.sort is stable, and the comparator is a consistent one
\* (missing values are equal to each other and above every number, numbers
\* are ordered by value), so the result is the one of an insertion sort:
\* element x goes behind every element already placed that does not compare
\* greater than x.  order holds positions of the rows, values their parsed
\* values.
RECURSIVE insertByMetric(_, _, _, _)
insertByMetric(order, x, values, mul) ==
    IF order = <<>> THEN <<x>>
    ELSE LET last == order[Len(order)]
         IN  IF compareMetric(values[last], values[x], mul) <= 0
             THEN Append(order, x)
             ELSE Append(insertByMetric(SubSeq(order, 1, Len(order) - 1), x, values, mul), last)

RECURSIVE sortByMetricFrom(_, _, _, _)
sortByMetricFrom(order, i, values, mul) ==
    IF i > Len(values) THEN order
    ELSE sortByMetricFrom(insertByMetric(order, i, values, mul), i + 1, values, mul)

\* The element of a set of one element; {e(v) : v \in {a}} is e of a, with
\* a evaluated once
the(S) == CHOOSE v \in S : TRUE

\* [...dataRows].sort(comparator): parseMetricNumber(a?.[colName]) is the
\* value of row a whenever the comparator is called with it
sortByMetric(dataRows, colName, mul) ==
    LET order == the({sortByMetricFrom(<<>>, 1, values, mul) :
                        values \in {[i \in DOMAIN dataRows |-> parseMetricNumber(Get(dataRows[i], colName))]}})
    IN  [k \in DOMAIN dataRows |-> dataRows[order[k]]]

\* The sort keys of the table and the metric role each stands for; "none"
\* is the null of sortKey and of sortDir
SortKeys == {"cost", "impr", "clicks", "conv", "cpcv"}

roleOf(key) == IF key = "cpcv" THEN "costPerConv" ELSE key

\* r?.__rowType || "data"
rowTypeOrData(r) ==
    LET t == String(Get(r, K_rowType))
    IN  IF t = <<>> THEN T_data ELSE t

\* The filter of the data rows: the search term or the campaign holds q
matchesFilter(r, q) ==
    \/ includes(toLowerCase(String(orElse(Get(r, K_searchTerm), Str(<<>>)))), q)
    \/ includes(toLowerCase(String(orElse(Get(r, K_campaign), Str(<<>>)))), q)

\* The rows shown were the filter applied to every row, not to the data
\* rows alone
visibleRowsFilterAll(rs, filterValue, key, dir, m) ==
    LET q == toLowerCase(trim(filterValue))
        passing == IF q # <<>> THEN filter(rs, {i \in DOMAIN rs : matchesFilter(rs[i], q)}) ELSE rs
        metaRows == filter(passing, {i \in DOMAIN passing : rowTypeOrData(passing[i]) = T_meta})
        totalRows == filter(passing, {i \in DOMAIN passing : rowTypeOrData(passing[i]) = T_total})
        allData == filter(passing, {i \in DOMAIN passing : rowTypeOrData(passing[i]) \notin {T_meta, T_total}})
        colName == IF key # "none" /\ dir # "none" THEN m[roleOf(key)] ELSE null
        sorted(dataRows) ==
            IF truthy(colName)
            THEN sortByMetric(dataRows, colName, IF dir = "asc" THEN 1 ELSE -1)
            ELSE dataRows
    IN  metaRows \o the({sorted(data) : data \in {allData}}) \o totalRows

visibleRows(rs, filterValue, key, dir, m) ==
    LET q == toLowerCase(trim(filterValue))
        metaRows == filter(rs, {i \in DOMAIN rs : rowTypeOrData(rs[i]) = T_meta})
        totalRows == filter(rs, {i \in DOMAIN rs : rowTypeOrData(rs[i]) = T_total})
        allData == filter(rs, {i \in DOMAIN rs : rowTypeOrData(rs[i]) \notin {T_meta, T_total}})
        filtered(dataRows) ==
            IF q # <<>>
            THEN filter(dataRows, {i \in DOMAIN dataRows : matchesFilter(dataRows[i], q)})
            ELSE dataRows
        colName == IF key # "none" /\ dir # "none" THEN m[roleOf(key)] ELSE null
        sorted(dataRows) ==
            IF truthy(colName)
            THEN sortByMetric(dataRows, colName, IF dir = "asc" THEN 1 ELSE -1)
            ELSE dataRows
    IN  metaRows
        \o the({sorted(kept) : kept \in {the({filtered(data) : data \in {allData}})}})
        \o totalRows

\* cycleSort(nextKey): the sort state after a click on the button of nextKey
cycleSort(key, dir, nextKey) ==
    IF key # nextKey THEN [sortKey |-> nextKey, sortDir |-> "desc"]
    ELSE IF dir = "desc" THEN [sortKey |-> key, sortDir |-> "asc"]
    ELSE IF dir = "asc" THEN [sortKey |-> "none", sortDir |-> "none"]
    ELSE [sortKey |-> key, sortDir |-> "desc"]

(***************************************************************************)
(* App.jsx: the state of the application and its reducer.  A text (a       *)
(* search term, a campaign name, the text of a negative) is a string; a    *)
(* negative is {id, text, matchType}; byCampaign is an object keyed by     *)
(* campaign name, a function from the keys it holds to lists; markedRowIds *)
(* is a Set of row identifiers as the rows hold them.                      *)
(***************************************************************************)

UNKNOWN_CAMPAIGN == <<"U","n","k","n","o","w","n"," ","c","a","m","p","a","i","g","n">>

\* String(s || "").trim().toLowerCase()
normKey(s) == toLowerCase(trim(s))

\* String(s || "").trim() || UNKNOWN_CAMPAIGN
normCampaignName(s) ==
    LET c == IF s = null THEN <<>> ELSE trim(s)
    IN  IF c # <<>> THEN c ELSE UNKNOWN_CAMPAIGN

\* a.localeCompare(b) over names in their own letter case: the letters
\* decide first, whatever their case; of two names that differ in case only
\* the one with the lower-case letter at the first difference comes first
compareNames(a, b) ==
    LET byLetters == localeCompare(toLowerCase(a), toLowerCase(b))
    IN  IF byLetters # 0 THEN byLetters
        ELSE IF a = b THEN 0
        ELSE LET i == CHOOSE k \in DOMAIN a : a[k] # b[k] /\ \A j \in 1..(k - 1) : a[j] = b[j]
             IN  IF a[i] = toLowerCase(<<a[i]>>)[1] THEN -1 ELSE 1

\* The loop of extractCampaigns over rows[i..]: arr holds the names met, in
\* the order a Set keeps them
RECURSIVE collectCampaigns(_, _, _)
collectCampaigns(rows, i, arr) ==
    IF i > Len(rows) THEN arr
    ELSE LET t == String(Get(rows[i], K_rowType))
             raw == trim(String(orElse(Get(rows[i], K_campaign), Str(<<>>))))
         IN  IF (t # <<>> /\ t # T_data) \/ raw = <<>> \/ (\E k \in DOMAIN arr : arr[k] = raw)
             THEN collectCampaigns(rows, i + 1, arr)
             ELSE collectCampaigns(rows, i + 1, Append(arr, raw))

\* arr.sort((a, b) => a.localeCompare(b)), a stable sort
RECURSIVE insertName(_, _)
insertName(sorted, c) ==
    IF sorted = <<>> THEN <<c>>
    ELSE LET last == sorted[Len(sorted)]
         IN  IF compareNames(last, c) <= 0 THEN Append(sorted, c)
             ELSE Append(insertName(SubSeq(sorted, 1, Len(sorted) - 1), c), last)

RECURSIVE sortNames(_)
sortNames(arr) ==
    IF arr = <<>> THEN <<>>
    ELSE insertName(sortNames(SubSeq(arr, 1, Len(arr) - 1)), arr[Len(arr)])

extractCampaigns(rows) ==
    LET arr == sortNames(collectCampaigns(rows, 1, <<>>))
    IN  IF arr # <<>> THEN arr ELSE <<UNKNOWN_CAMPAIGN>>

initialState ==
    [report |-> [columns |-> <<>>, rows |-> <<>>, filename |-> null,
                 searchTermColumnName |-> null, campaignColumnName |-> null, adGroupColumnName |-> null,
                 warnings |-> <<>>, error |-> null],
     negatives |-> [items |-> <<>>, byCampaign |-> <<>>],
     ui |-> [markedRowIds |-> {}, mode |-> "account", selectedCampaign |-> <<>>]]

\* state.negatives.byCampaign[campaign] || []
listOf(byCampaign, campaign) == IF campaign \in DOMAIN byCampaign THEN byCampaign[campaign] ELSE <<>>

\* { ...byCampaign, [campaign]: next }
withList(byCampaign, campaign, next) ==
    [c \in DOMAIN byCampaign \cup {campaign} |-> IF c = campaign THEN next ELSE byCampaign[c]]

\* Every negative the state holds
allItems(st) ==
    {st.negatives.items[k] : k \in DOMAIN st.negatives.items}
    \cup UNION {{st.negatives.byCampaign[c][k] : k \in DOMAIN st.negatives.byCampaign[c]} :
                    c \in DOMAIN st.negatives.byCampaign}

\* crypto.randomUUID(): an identifier no negative of the state holds.  The
\* reducer compares identifiers of negatives held only, so the smallest
\* number not in use stands for the fresh one.
randomUUID(st) == CHOOSE n \in 1..(Cardinality(allItems(st)) + 1) :
                    /\ \A x \in allItems(st) : x.id # n
                    /\ \A m \in 1..(n - 1) : \E x \in allItems(st) : x.id = m

\* list.some((x) => normKey(x.text) === normKey(text))
existsInList(list, text) == \E k \in DOMAIN list : normKey(list[k].text) = normKey(text)

\* action.payload.scope || state.ui.mode; "none" is a payload without scope
scopeOf(st, payload) == IF payload.scope # "none" THEN payload.scope ELSE st.ui.mode

reportLoaded(st, payload) ==
    [st EXCEPT
        !.report = [columns |-> payload.columns, rows |-> payload.rows, filename |-> payload.filename,
                    searchTermColumnName |-> payload.searchTermColumnName,
                    campaignColumnName |-> payload.campaignColumnName,
                    adGroupColumnName |-> payload.adGroupColumnName,
                    warnings |-> payload.warnings, error |-> null],
        !.ui.markedRowIds = {},
        !.ui.selectedCampaign = IF st.ui.mode = "campaign" THEN extractCampaigns(payload.rows)[1] ELSE <<>>,
        !.negatives = [items |-> <<>>, byCampaign |-> <<>>]]

reportError(st, payload) ==
    [st EXCEPT
        !.report = [columns |-> <<>>, rows |-> <<>>,
                    filename |-> IF truthy(payload.filename) THEN payload.filename ELSE null,
                    searchTermColumnName |-> null, campaignColumnName |-> null, adGroupColumnName |-> null,
                    warnings |-> <<>>,
                    error |-> IF truthy(payload.error) THEN payload.error ELSE <<"F","a","i","l","e","d"," ","t","o"," ","l","o","a","d"," ","r","e","p","o","r","t">>],
        !.ui.markedRowIds = {},
        !.ui.selectedCampaign = <<>>,
        !.negatives = [items |-> <<>>, byCampaign |-> <<>>]]

\* SET_MODE without the repair of the selection
setModeKeepSelection(st, payload) ==
    IF payload.mode \notin {"account", "campaign"} THEN st
    ELSE [st EXCEPT !.ui.mode = payload.mode]

setMode(st, payload) ==
    IF payload.mode \notin {"account", "campaign"} THEN st
    ELSE LET selectedCampaign ==
                IF /\ payload.mode = "campaign"
                   /\ ~\E k \in DOMAIN extractCampaigns(st.report.rows) :
                            extractCampaigns(st.report.rows)[k] = st.ui.selectedCampaign
                THEN extractCampaigns(st.report.rows)[1]
                ELSE st.ui.selectedCampaign
         IN  [st EXCEPT !.ui.mode = payload.mode, !.ui.selectedCampaign = selectedCampaign]

setSelectedCampaign(st, payload) == [st EXCEPT !.ui.selectedCampaign = payload.campaign]

\* ADD_NEGATIVE appending whether or not the list holds the text
addNegativeAlways(st, payload) ==
    LET text == trim(payload.text)
        campaign == normCampaignName(payload.campaign)
        item == [id |-> randomUUID(st), text |-> text,
                 matchType |-> IF payload.matchType # "none" THEN payload.matchType ELSE "phrase"]
    IN  IF text = <<>> THEN st
        ELSE IF scopeOf(st, payload) = "campaign"
        THEN [st EXCEPT !.negatives.byCampaign =
                            withList(st.negatives.byCampaign, campaign,
                                     Append(listOf(st.negatives.byCampaign, campaign), item))]
        ELSE [st EXCEPT !.negatives.items = Append(st.negatives.items, item)]

addNegative(st, payload) ==
    LET text == trim(payload.text)
        matchType == IF payload.matchType # "none" THEN payload.matchType ELSE "phrase"
        campaign == normCampaignName(payload.campaign)
        nextMarked ==
            IF payload.markRow /\ payload.rowId.type \notin {"undefined", "null"}
            THEN st.ui.markedRowIds \cup {payload.rowId}
            ELSE st.ui.markedRowIds
        current == listOf(st.negatives.byCampaign, campaign)
        item == [id |-> randomUUID(st), text |-> text, matchType |-> matchType]
    IN  IF text = <<>> THEN st
        ELSE IF scopeOf(st, payload) = "campaign"
        THEN IF existsInList(current, text)
             THEN [st EXCEPT !.ui.markedRowIds = nextMarked]
             ELSE [st EXCEPT !.negatives.byCampaign = withList(st.negatives.byCampaign, campaign, Append(current, item)),
                             !.ui.markedRowIds = nextMarked]
        ELSE IF existsInList(st.negatives.items, text)
             THEN [st EXCEPT !.ui.markedRowIds = nextMarked]
             ELSE [st EXCEPT !.negatives.items = Append(st.negatives.items, item),
                             !.ui.markedRowIds = nextMarked]

\* list.filter((x) => normKey(x.text) !== normKey(text))
removeFromList(list, text) == filter(list, {k \in DOMAIN list : normKey(list[k].text) # normKey(text)})

\* REMOVE_NEGATIVE_BY_TEXT taking the text out of the account list and of
\* every campaign's list
removeNegativeByTextEverywhere(st, payload) ==
    LET text == toLowerCase(trim(payload.text))
    IN  IF text = <<>> THEN st
        ELSE [st EXCEPT
                !.negatives.items = removeFromList(st.negatives.items, text),
                !.negatives.byCampaign = [c \in DOMAIN st.negatives.byCampaign |->
                                            removeFromList(st.negatives.byCampaign[c], text)]]

removeNegativeByText(st, payload) ==
    LET text == toLowerCase(trim(payload.text))
        campaign == normCampaignName(payload.campaign)
        nextMarked ==
            IF payload.unmarkRow /\ payload.rowId.type \notin {"undefined", "null"}
            THEN st.ui.markedRowIds \ {payload.rowId}
            ELSE st.ui.markedRowIds
    IN  IF text = <<>> THEN st
        ELSE IF scopeOf(st, payload) = "campaign"
        THEN [st EXCEPT !.negatives.byCampaign =
                            withList(st.negatives.byCampaign, campaign,
                                     removeFromList(listOf(st.negatives.byCampaign, campaign), text)),
                        !.ui.markedRowIds = nextMarked]
        ELSE [st EXCEPT !.negatives.items = removeFromList(st.negatives.items, text),
                        !.ui.markedRowIds = nextMarked]

removeNegative(st, payload) ==
    LET scope == scopeOf(st, payload)
        campaign == normCampaignName(payload.campaign)
        current == IF scope = "campaign" THEN listOf(st.negatives.byCampaign, campaign) ELSE st.negatives.items
        found == {k \in DOMAIN current : current[k].id = payload.id}
        next == filter(current, {k \in DOMAIN current : current[k].id # payload.id})
        unmarked == IF found = {} THEN {}
                    ELSE LET removed == current[CHOOSE k \in found : \A j \in found : k <= j]
                         IN  {Get(st.report.rows[i], K_rowId) : i \in {n \in DOMAIN st.report.rows :
                                /\ normKey(String(Get(st.report.rows[n], K_searchTerm))) = normKey(removed.text)
                                /\ \/ scope # "campaign"
                                   \/ normCampaignName(String(Get(st.report.rows[n], K_campaign))) = campaign}}
    IN  IF scope = "campaign"
        THEN [st EXCEPT !.negatives.byCampaign = withList(st.negatives.byCampaign, campaign, next),
                        !.ui.markedRowIds = st.ui.markedRowIds \ unmarked]
        ELSE [st EXCEPT !.negatives.items = next,
                        !.ui.markedRowIds = st.ui.markedRowIds \ unmarked]

updateNegativeMatchType(st, payload) ==
    LET campaign == normCampaignName(payload.campaign)
        current == listOf(st.negatives.byCampaign, campaign)
    IN  IF scopeOf(st, payload) = "campaign"
        THEN [st EXCEPT !.negatives.byCampaign =
                withList(st.negatives.byCampaign, campaign,
                         [k \in DOMAIN current |->
                            IF current[k].id = payload.id
                            THEN [current[k] EXCEPT !.matchType = payload.matchType] ELSE current[k]])]
        ELSE [st EXCEPT !.negatives.items =
                [k \in DOMAIN st.negatives.items |->
                    IF st.negatives.items[k].id = payload.id
                    THEN [st.negatives.items[k] EXCEPT !.matchType = payload.matchType]
                    ELSE st.negatives.items[k]]]

reducer(st, action) ==
    CASE action.type = "REPORT_LOADED" -> reportLoaded(st, action.payload)
      [] action.type = "REPORT_ERROR" -> reportError(st, action.payload)
      [] action.type = "SET_MODE" -> setMode(st, action.payload)
      [] action.type = "SET_SELECTED_CAMPAIGN" -> setSelectedCampaign(st, action.payload)
      [] action.type = "ADD_NEGATIVE" -> addNegative(st, action.payload)
      [] action.type = "REMOVE_NEGATIVE_BY_TEXT" -> removeNegativeByText(st, action.payload)
      [] action.type = "REMOVE_NEGATIVE" -> removeNegative(st, action.payload)
      [] action.type = "UPDATE_NEGATIVE_MATCH_TYPE" -> updateNegativeMatchType(st, action.payload)
      [] OTHER -> st

\* The dependencies of the effect that keeps the selected campaign valid
effectDeps(st, names) == <<st.ui.mode, st.ui.selectedCampaign, join(names, <<"|", "|">>)>>

\* negativeMaps / getNegativeMapForRow(row): the negatives a row is looked
\* up in, keyed by normKey of their text
getNegativeMapForRow(st, row) ==
    IF st.ui.mode = "account" THEN st.negatives.items
    ELSE listOf(st.negatives.byCampaign, normCampaignName(String(orElse(Get(row, K_campaign), Str(<<>>)))))

\* ReportTable isInNegatives(text, row)
isInNegatives(st, txt, row) ==
    /\ normKey(txt) # <<>>
    /\ \E k \in DOMAIN getNegativeMapForRow(st, row) :
            normKey(getNegativeMapForRow(st, row)[k].text) = normKey(txt)

\* useMemo(() => extractCampaigns(state.report.rows), [state.report.rows])
campaignsOf(st) == extractCampaigns(st.report.rows)

activeCampaign(st) == IF st.ui.mode = "campaign" THEN normCampaignName(st.ui.selectedCampaign) ELSE null

activeItems(st) ==
    IF st.ui.mode = "account" THEN st.negatives.items
    ELSE listOf(st.negatives.byCampaign, activeCampaign(st))

\* The rows prop of ReportTable whose buttons are rendered: in campaign
\* mode the data rows of the active campaign only
actionableRows(st) ==
    {i \in DOMAIN st.report.rows :
        /\ rowTypeOrData(st.report.rows[i]) = T_data
        /\ \/ st.ui.mode # "campaign"
           \/ String(Get(st.report.rows[i], K_rowType)) # T_data
           \/ normCampaignName(String(Get(st.report.rows[i], K_campaign))) = activeCampaign(st)}

(***************************************************************************)
(* The variables of an operation that is not under way                     *)
(***************************************************************************)

Invocations == {1, 2}

noMetrics == [role \in Roles |-> null]

noFields == [searchTerm |-> null, campaign |-> null, adGroup |-> null]

DetectIdle == header = <<>> /\ shuffled = <<>> /\ metrics = noMetrics /\ fields = noFields

ParseIdle == file = noFile /\ headerRowIndex = -1 /\ report = noReport /\ origin = <<>>

TotalsIdle == totalsIn = <<>> /\ orderedTotals = <<>>

DateIdle == preamble = <<>> /\ extracted = null

NumberIdle == cell = nullValue /\ metricNumber = NEGATIVE_INFINITY

TableIdle == propRows = <<>> /\ filterText = <<>> /\ sortKey = "none" /\ sortDir = "none" /\ visible = <<>>

CallsIdle ==
    /\ invFile = [i \in Invocations |-> noFile]
    /\ invPc = [i \in Invocations |-> "idle"]
    /\ invReport = [i \in Invocations |-> noReport]

AppIdle == state = initialState /\ memoCampaigns = <<UNKNOWN_CAMPAIGN>> /\ effectPending = FALSE

(***************************************************************************)
(* Metric detection as a state machine: a list of labels is detected,      *)
(* reordered (the CSV export with its columns in another order), detected  *)
(* again.                                                                  *)
(***************************************************************************)

MaxCols == 3

MetricLabels == {
    <<"C","o","s","t">>,
    <<"C","o","s","t"," ","(","p","e","r"," ","c","o","n","v",")">>,
    <<"C","o","s","t"," ","/"," ","c","o","n","v",".">>,
    <<"C","o","s","t"," ","/"," ","c","o","n","v","e","r","s","i","o","n">>,
    <<"C","o","n","v","e","r","s","i","o","n","s">>,
    <<"C","o","n","v","e","r","s","i","o","n","s"," ","r","a","t","e">>,
    <<"C","l","i","c","k","s">>,
    <<"C","l","i","c","k">>,
    <<"I","m","p","r",".">>,
    <<"u0420","u0430","u0441","u0445","u043E","u0434">> }

ColumnLists(labels) == UNION {[1..n -> labels] : n \in 1..MaxCols}

swap(s, i) == [s EXCEPT ![i] = s[i + 1], ![i + 1] = s[i]]

InitMetrics ==
    /\ header \in ColumnLists(MetricLabels)
    /\ shuffled = header
    /\ metrics = noMetrics
    /\ fields = noFields
    /\ pc = "input"
    /\ file = noFile
    /\ headerRowIndex = -1
    /\ report = noReport
    /\ origin = <<>>
    /\ totalsIn = <<>>
    /\ orderedTotals = <<>>
    /\ DateIdle /\ NumberIdle /\ TableIdle /\ CallsIdle /\ AppIdle

\* useMemo(() => detectMetricColumnsStrong(header), [columns])
DetectMetrics ==
    /\ pc = "input"
    /\ metrics' = detectMetricColumnsStrong(shuffled)
    /\ pc' = "detected"
    /\ UNCHANGED <<header, shuffled, fields, parseVars, totalsVars, viewVars>>

\* The same report with two neighbouring columns exchanged
ShuffleColumns ==
    /\ pc = "detected"
    /\ \E i \in 1..(Len(shuffled) - 1) : shuffled' = swap(shuffled, i)
    /\ metrics' = noMetrics
    /\ fields' = noFields
    /\ pc' = "input"
    /\ UNCHANGED <<header, parseVars, totalsVars, viewVars>>

NextMetrics == DetectMetrics \/ ShuffleColumns

SpecMetrics == InitMetrics /\ [][NextMetrics]_vars

\* C2: the column chosen as cost never has a normalized label containing
\* "per conv", "cost/conv" or "cpa".
C2_CostNeverCostPerConv ==
    pc = "detected" /\ metrics["cost"] # null =>
        LET k == norm(metrics["cost"])
        IN  /\ ~includes(k, <<"p","e","r"," ","c","o","n","v">>)
            /\ ~includes(k, <<"c","o","s","t","/","c","o","n","v">>)
            /\ ~includes(k, <<"c","p","a">>)

\* C3: the column chosen as conversions never has a normalized label
\* containing "rate", a percent sign or the Russian root u043A u043E u044D u0444.
C3_ConvNeverRate ==
    pc = "detected" /\ metrics["conv"] # null =>
        LET k == norm(metrics["conv"])
        IN  /\ ~includes(k, <<"r","a","t","e">>)
            /\ ~includes(k, <<"%">>)
            /\ ~includes(k, <<"u043A","u043E","u044D","u0444">>)

\* C4: whatever the order of the columns, every role is mapped to the column
\* label it is mapped to in the original order.
C4_MetricsOrderIndependent ==
    pc = "detected" => metrics = detectMetricColumnsStrong(header)

(***************************************************************************)
(* Column role detection of the parser as a state machine, over the same   *)
(* reordering.                                                             *)
(***************************************************************************)

SearchLabels == {
    <<"S","e","a","r","c","h"," ","t","e","r","m">>,
    <<"S","e","a","r","c","h"," ","t","e","r","m","s">>,
    <<"S","e","a","r","c","h"," ","q","u","e","r","y"," ","t","e","x","t">>,
    <<"M","a","t","c","h","e","d"," ","s","e","a","r","c","h"," ","q","u","e","r","y">>,
    <<"u041F","u043E","u0438","u0441","u043A","u043E","u0432","u044B","u0439"," ","u0437","u0430","u043F","u0440","u043E","u0441">>,
    <<"u041F","u043E","u0438","u0441","u043A"," ","u043F","u043E"," ","u0444","u0440","u0430","u0437","u0435">>,
    <<"C","a","m","p","a","i","g","n">>,
    <<"C","a","m","p","a","i","g","n"," ","n","a","m","e">>,
    <<"A","d"," ","g","r","o","u","p">>,
    <<"K","e","y","w","o","r","d">> }

InitFields ==
    /\ header \in ColumnLists(SearchLabels)
    /\ shuffled = header
    /\ metrics = noMetrics
    /\ fields = noFields
    /\ pc = "input"
    /\ file = noFile
    /\ headerRowIndex = -1
    /\ report = noReport
    /\ origin = <<>>
    /\ totalsIn = <<>>
    /\ orderedTotals = <<>>
    /\ DateIdle /\ NumberIdle /\ TableIdle /\ CallsIdle /\ AppIdle

DetectFields ==
    /\ pc = "input"
    /\ fields' = detectFields(shuffled)
    /\ pc' = "detected"
    /\ UNCHANGED <<header, shuffled, metrics, parseVars, totalsVars, viewVars>>

NextFields == DetectFields \/ ShuffleColumns

SpecFields == InitFields /\ [][NextFields]_vars

\* The tier detectSearchTermColumn answers from: the columns in the
\* dictionary, else those of the English heuristic, else of the Russian one
searchTermTier(cols) ==
    LET key(i) == toLowerCase(trim(cols[i]))
        exact == {i \in DOMAIN cols : key(i) \in searchTermExactCandidates}
        en == {i \in DOMAIN cols : searchTermEnHeuristic(key(i))}
        ru == {i \in DOMAIN cols : searchTermRuHeuristic(key(i))}
    IN  IF exact # {} THEN exact ELSE IF en # {} THEN en ELSE ru

\* C5 as stated: for every permutation of a non-empty list of labels
\* detectSearchTermColumn returns the label it returns for the list itself.
C5_SearchTermOrderIndependent ==
    pc = "detected" => fields.searchTerm = detectSearchTermColumn(header)

\* C5 as amended: the same, for the lists in which the columns of the
\* answering tier all carry one label (so not when several differently
\* labelled columns match at that tier, nor when no column matches).
C5_SearchTermOrderIndependentUniqueTier ==
    pc = "detected" /\ Cardinality({header[i] : i \in searchTermTier(header)}) = 1
        => fields.searchTerm = detectSearchTermColumn(header)

\* A reordered list with a dictionary column behind a heuristic-only column,
\* detected as the dictionary column
C5_Witness ==
    /\ pc = "detected"
    /\ shuffled # header
    /\ Cardinality({header[i] : i \in searchTermTier(header)}) = 1
    /\ \E i, j \in DOMAIN shuffled :
        /\ i < j
        /\ searchTermEnHeuristic(normalizeHeader(shuffled[i]))
        /\ normalizeHeader(shuffled[i]) \notin searchTermExactCandidates
        /\ normalizeHeader(shuffled[j]) \in searchTermExactCandidates
        /\ fields.searchTerm = shuffled[j]

(***************************************************************************)
(* The assembler as a state machine: the text of a file is read (the one   *)
(* point where parseSearchTermsCsv waits), then parsed in one step, with   *)
(* the header row found or not.                                            *)
(***************************************************************************)

MaxRows == 3

\* The rows a grid is made of: header rows (one with a repeated name and a
\* column named __rowId, one of 2 cells, two with a column named __rowType,
\* two whose labels match by substring only),
\* data rows, total rows, preamble lines with a date range.  Only the row
\* with the repeated name repeats a cell, and a grid holding it has a
\* detected header row, so the pass with header: true meets no repeated
\* field name.
GridRows == {
    <<<<"S","e","a","r","c","h"," ","t","e","r","m">>, <<"C","a","m","p","a","i","g","n">>, <<"C","o","s","t">>>>,
    <<<<"S","e","a","r","c","h"," ","t","e","r","m">>, <<"_","_","r","o","w","I","d">>, <<"C","o","s","t">>, <<"C","o","s","t">>>>,
    <<<<"S","e","a","r","c","h"," ","t","e","r","m">>, <<"C","o","s","t">>>>,
    <<<<"_","_","r","o","w","T","y","p","e">>, <<"S","e","a","r","c","h"," ","t","e","r","m">>>>,
    <<<<"S","e","a","r","c","h"," ","t","e","r","m">>, <<"_","_","r","o","w","T","y","p","e">>, <<"C","o","s","t">>>>,
    <<<<"A","d"," ","g","r","o","u","p"," ","I","D">>, <<"U","s","e","r"," ","s","e","a","r","c","h"," ","q","u","e","r","y">>>>,
    <<<<"u041A","u0430","u043C","u043F","u0430","u043D","u0438","u0438"," ","(","u0432","u0441","u0435",")">>, <<"u0422","u0435","u043A","u0441","u0442"," ","u043F","u043E","u0438","u0441","u043A","u043E","u0432","u043E","u0433","u043E"," ","u0437","u0430","u043F","u0440","u043E","u0441","u0430">>>>,
    <<<<"s","h","o","e","s">>, <<"B","r","a","n","d">>, <<"1">>>>,
    <<<<"h","a","t">>>>,
    <<<<"T","o","t","a","l",":"," ","S","e","a","r","c","h">>, <<>>, <<"9">>>>,
    <<<<"T","o","t","a","l",":"," ","D","i","s","p","l","a","y">>, <<>>, <<"8">>>>,
    <<<<"1","0"," ","F","e","b","r","u","a","r","y"," ","2","0","2","6"," ","-"," ","1","3"," ","F","e","b","r","u","a","r","y"," ","2","0","2","6">>>>,
    <<<<"A","l","l"," ","t","i","m","e"," ","-"," ","2","0","2","6">>>> }

Grids == UNION {[1..n -> GridRows] : n \in 0..MaxRows}

quoteError == [message |-> <<"Q","u","o","t","e","d"," ","f","i","e","l","d"," ","u","n","t","e","r","m","i","n","a","t","e","d">>]

trailingQuoteError == [message |-> <<"T","r","a","i","l","i","n","g"," ","q","u","o","t","e"," ","o","n"," ","q","u","o","t","e","d"," ","f","i","e","l","d"," ","i","s"," ","m","a","l","f","o","r","m","e","d">>]

fieldError == [message |-> <<"T","o","o"," ","f","e","w"," ","f","i","e","l","d","s">>]

\* The errors of the two passes: none; two errors of malformed quotes, met
\* by both passes; a row shorter than the header, met by the pass with
\* header: true only.  Which text the decoder reports errors for is the
\* decoder's matter: every grid is taken with every case.
DecodeErrors == {
    [scan |-> <<>>, header |-> <<>>],
    [scan |-> <<quoteError, trailingQuoteError>>, header |-> <<quoteError, trailingQuoteError>>],
    [scan |-> <<>>, header |-> <<fieldError>>] }

Files == {[data |-> g, scanErrors |-> e.scan, headerErrors |-> e.header] : g \in Grids, e \in DecodeErrors}

Init ==
    /\ file \in Files
    /\ pc = "start"
    /\ headerRowIndex = -1
    /\ report = noReport
    /\ origin = <<>>
    /\ totalsIn = <<>>
    /\ orderedTotals = <<>>
    /\ DateIdle /\ NumberIdle /\ TableIdle /\ CallsIdle /\ AppIdle
    /\ header = <<>>
    /\ shuffled = <<>>
    /\ metrics = noMetrics
    /\ fields = noFields

\* const textRaw0 = await file.text()
ReadText ==
    /\ pc = "start"
    /\ pc' = "text"
    /\ UNCHANGED <<file, headerRowIndex, report, origin, detectVars, totalsVars, viewVars>>

\* The header row is found: lines 40-104
ParseDetected ==
    /\ pc = "text"
    /\ findHeaderRowIndex(file.data) # -1
    /\ headerRowIndex' = findHeaderRowIndex(file.data)
    /\ LET out == parseText(file)
       IN  report' = out.report /\ origin' = out.origin
    /\ pc' = "done"
    /\ UNCHANGED <<file, detectVars, totalsVars, viewVars>>

\* No header row: parseSimpleHeaderCsv
ParseSimple ==
    /\ pc = "text"
    /\ findHeaderRowIndex(file.data) = -1
    /\ headerRowIndex' = -1
    /\ LET out == parseText(file)
       IN  report' = out.report /\ origin' = out.origin
    /\ pc' = "done"
    /\ UNCHANGED <<file, detectVars, totalsVars, viewVars>>

Next == ReadText \/ ParseDetected \/ ParseSimple

Spec == Init /\ [][Next]_vars

(***************************************************************************)
(* sortTotals as a state machine: total rows as the assembler makes them   *)
(* (numbered in file order, the label under the search-term column) are    *)
(* handed over in any order of labels and sorted.                          *)
(***************************************************************************)

MaxTotals == 3

TotalLabels == {
    <<"T","o","t","a","l",":"," ","S","e","a","r","c","h">>,
    <<"T","o","t","a","l",":"," ","P","e","r","f","o","r","m","a","n","c","e"," ","M","a","x">>,
    <<"T","o","t","a","l",":"," ","D","i","s","p","l","a","y">>,
    <<"T","o","t","a","l",":"," ","S","h","o","p","p","i","n","g">>,
    <<"T","o","t","a","l",":"," ","A","u","d","i","o">>,
    <<"T","O","T","A","L",":","s","e","a","r","c","h"," ">>,
    <<"u0418","u0442","u043E","u0433","u043E",":"," ","u0410","u043A","u043A","u0430","u0443","u043D","u0442">> }

totalsSearchTermCol == <<"S","e","a","r","c","h"," ","t","e","r","m">>

makeTotalRow(idx, label) ==
    LET r == mapRowToObject(<<totalsSearchTermCol>>, <<label>>)
    IN  Spread(<<Obj1(K_rowId, Num(idx)), r, derivedFields(r, totalsSearchTermCol, null, null),
                 Obj1(K_rowType, Str(T_total))>>)

InitTotals ==
    /\ totalsIn \in {[i \in DOMAIN ls |-> makeTotalRow(i, ls[i])] :
                        ls \in UNION {[1..n -> TotalLabels] : n \in 0..MaxTotals}}
    /\ orderedTotals = <<>>
    /\ pc = "input"
    /\ header = <<>>
    /\ shuffled = <<>>
    /\ metrics = noMetrics
    /\ fields = noFields
    /\ file = noFile
    /\ headerRowIndex = -1
    /\ report = noReport
    /\ origin = <<>>
    /\ DateIdle /\ NumberIdle /\ TableIdle /\ CallsIdle /\ AppIdle

\* const orderedTotals = sortTotals(totalsIn, searchTermCol)
SortTotals ==
    /\ pc = "input"
    /\ orderedTotals' = sortTotals(totalsIn, totalsSearchTermCol)
    /\ pc' = "sorted"
    /\ UNCHANGED <<totalsIn, detectVars, parseVars, viewVars>>

NextTotals == SortTotals

SpecTotals == InitTotals /\ [][NextTotals]_vars

(***************************************************************************)
(* extractDateRange as a state machine: preamble lines as joinRowCells     *)
(* leaves them (trimmed, not empty) are handed over.                       *)
(***************************************************************************)

MaxLines == 3

\* Lines with two dates and a dash between them
StrictDateLines == {
    <<"1","0"," ","F","e","b","r","u","a","r","y"," ","2","0","2","6"," ","-"," ","1","3"," ","F","e","b","r","u","a","r","y"," ","2","0","2","6">>,
    <<"1"," ","u043C","u0430","u044F"," ","2","0","2","5"," ","u2013"," ","2"," ","u043C","u0430","u044F"," ","2","0","2","5">> }

\* Lines with a year of 4 digits and a dash, and no two dates
LooseDateLines == {
    <<"A","l","l"," ","t","i","m","e"," ","-"," ","2","0","2","6">> }

\* Lines with no year, or no dash
OtherLines == {
    <<"R","e","p","o","r","t"," ","2","0","2","6">>,
    <<"B","r","a","n","d"," ","-"," ","S","e","a","r","c","h">>,
    <<"S","e","a","r","c","h"," ","t","e","r","m","s"," ","r","e","p","o","r","t">> }

DateLines == StrictDateLines \cup LooseDateLines \cup OtherLines

InitDateRange ==
    /\ preamble \in UNION {[1..n -> DateLines] : n \in 0..MaxLines}
    /\ extracted = null
    /\ pc = "input"
    /\ DetectIdle /\ ParseIdle /\ TotalsIdle /\ NumberIdle /\ TableIdle /\ CallsIdle /\ AppIdle

\* const dateRange = extractDateRange(preambleLines)
ExtractDateRange ==
    /\ pc = "input"
    /\ extracted' = extractDateRange(preamble)
    /\ pc' = "extracted"
    /\ UNCHANGED <<preamble, detectVars, parseVars, totalsVars, numberVars, tableVars, callVars, appVars>>

NextDateRange == ExtractDateRange

SpecDateRange == InitDateRange /\ [][NextDateRange]_vars

(***************************************************************************)
(* parseMetricNumber as a state machine: a cell of a metric column, or the *)
(* null / undefined of a row without the column, is handed over.           *)
(***************************************************************************)

MaxChars == 4

\* Digits, the two separators, the minus, a space, the euro sign, the em dash
MetricChars == {"0", "1", ",", ".", "-", " ", "u20AC", "u2014"}

MetricExamples == {
    <<"1",",","2","3","4",".","5","6">>,
    <<"1"," ","2","3","4",",","5","6">>,
    <<"u20AC","1",",","2","3","4">>,
    <<"1",",","2","3">>,
    <<"1",".","2","3","4",",","5","6">>,
    <<"1","2",".","5","%">>,
    <<"-","1"," ","2","3","4",",","5">> }

MetricTexts == UNION {[1..n -> MetricChars] : n \in 0..MaxChars} \cup MetricExamples

MetricValues == {nullValue, undefined} \cup {Str(s) : s \in MetricTexts}

InitNumber ==
    /\ cell \in MetricValues
    /\ metricNumber = NEGATIVE_INFINITY
    /\ pc = "input"
    /\ DetectIdle /\ ParseIdle /\ TotalsIdle /\ DateIdle /\ TableIdle /\ CallsIdle /\ AppIdle

\* const av = parseMetricNumber(a?.[colName])
ParseMetricNumber ==
    /\ pc = "input"
    /\ metricNumber' = parseMetricNumber(cell)
    /\ pc' = "parsed"
    /\ UNCHANGED <<cell, detectVars, parseVars, totalsVars, dateVars, tableVars, callVars, appVars>>

NextNumber == ParseMetricNumber

SpecNumber == InitNumber /\ [][NextNumber]_vars

(***************************************************************************)
(* The report table as a state machine: the rows of a Report that the      *)
(* assembler made are shown; the user clicks the sort buttons and types    *)
(* into the filter box, and visibleRows is computed anew.                  *)
(***************************************************************************)

MaxTableRows == 3

TableColumns == <<<<"S","e","a","r","c","h"," ","t","e","r","m">>, <<"C","a","m","p","a","i","g","n">>, <<"C","o","s","t">>, <<"C","l","i","c","k","s">>>>

TableCells == {
    <<<<"s","h","o","e","s">>, <<"B","r","a","n","d">>, <<"1",",","5">>, <<"3">>>>,
    <<<<"h","a","t">>, <<"B","r","a","n","d">>, <<"2">>, <<"u2014">>>>,
    <<<<"b","o","o","t","s">>, <<"G","e","n","e","r","i","c">>, <<"1","0">>, <<"1">>>>,
    <<<<"r","e","d"," ","s","h","o","e","s">>, <<"G","e","n","e","r","i","c">>, <<"u2014">>, <<"2">>>>,
    <<<<"c","a","p">>, <<"B","r","a","n","d">>, <<>>, <<"2">>>>,
    <<<<"s","h","o","e"," ","b","o","x">>, <<"G","e","n","e","r","i","c">>, <<"1",".","5","0">>, <<"1","0">>>>,
    <<<<"T","o","t","a","l",":"," ","S","e","a","r","c","h">>, <<>>, <<"9","9">>, <<"1","8">>>> }

TablePreambles == {<<>>, << <<<<"1","0"," ","F","e","b","r","u","a","r","y"," ","2","0","2","6"," ","-"," ","1","3"," ","F","e","b","r","u","a","r","y"," ","2","0","2","6">>>> >>}

FilterTexts == {<<>>, <<"s","h">>, <<" ","B","R","A","N","D"," ">>}

\* The rows of the Report of a file with the columns of TableColumns
reportRows(pre, body) == assembleReport(pre \o <<TableColumns>> \o body, <<>>, Len(pre)).report.rows

\* Files with a column named __rowType, whose cells the spread of the row
\* writes over the tag (in the fallback) or over the tag of the meta row
\* (with a detected header row): the table is handed rows whose tag is
\* empty, or meta or total on a row of the body, or none of the three
MaxTaggedRows == 2

TaggedColumns == {
    <<<<"K","e","y","w","o","r","d">>, <<"_","_","r","o","w","T","y","p","e">>, <<"C","o","s","t">>>>,
    <<<<"S","e","a","r","c","h"," ","t","e","r","m">>, <<"_","_","r","o","w","T","y","p","e">>, <<"C","o","s","t">>>> }

TaggedCells == {
    <<<<"s","h","o","e","s">>, <<"m","e","t","a">>, <<"2">>>>,
    <<<<"h","a","t">>, <<>>, <<"1">>>>,
    <<<<"s","h","i","r","t">>, <<"t","o","t","a","l">>, <<"u2014">>>>,
    <<<<"T","o","t","a","l",":"," ","S","e","a","r","c","h">>, <<"x">>, <<"9">>>> }

taggedReport(cols, body) ==
    parseText([data |-> << <<<<"1","0"," ","F","e","b","r","u","a","r","y"," ","2","0","2","6"," ","-"," ","1","3"," ","F","e","b","r","u","a","r","y"," ","2","0","2","6">>>>, cols >> \o body,
               scanErrors |-> <<>>, headerErrors |-> <<>>]).report

\* The columns and rows props of the table
TableReports ==
    {[columns |-> TableColumns, rows |-> reportRows(pre, body)] :
        pre \in TablePreambles,
        body \in UNION {[1..n -> TableCells] : n \in 0..MaxTableRows}}
    \cup
    {[columns |-> taggedReport(cols, body).columns, rows |-> taggedReport(cols, body).rows] :
        cols \in TaggedColumns,
        body \in UNION {[1..n -> TaggedCells] : n \in 0..MaxTaggedRows}}

InitTable ==
    /\ \E rep \in TableReports :
        /\ propRows = rep.rows
        /\ header = rep.columns
        /\ shuffled = rep.columns
        /\ metrics = detectMetricColumnsStrong(rep.columns)
        /\ visible = visibleRows(rep.rows, <<>>, "none", "none", detectMetricColumnsStrong(rep.columns))
    /\ fields = noFields
    /\ filterText = <<>>
    /\ sortKey = "none"
    /\ sortDir = "none"
    /\ pc = "table"
    /\ ParseIdle /\ TotalsIdle /\ DateIdle /\ NumberIdle /\ CallsIdle /\ AppIdle

\* onClick={() => cycleSort(nextKey)}; the button is disabled when the
\* metric has no column
CycleSort ==
    \E nextKey \in SortKeys :
        /\ truthy(metrics[roleOf(nextKey)])
        /\ LET next == cycleSort(sortKey, sortDir, nextKey)
           IN  /\ sortKey' = next.sortKey
               /\ sortDir' = next.sortDir
               /\ visible' = visibleRows(propRows, filterText, next.sortKey, next.sortDir, metrics)
        /\ UNCHANGED <<pc, propRows, filterText, detectVars, parseVars, totalsVars, dateVars, numberVars, callVars, appVars>>

\* onChange of the filter box: setFilter(e.target.value)
SetFilter ==
    \E text \in FilterTexts :
        /\ filterText' = text
        /\ visible' = visibleRows(propRows, text, sortKey, sortDir, metrics)
        /\ UNCHANGED <<pc, propRows, sortKey, sortDir, detectVars, parseVars, totalsVars, dateVars, numberVars, callVars, appVars>>

NextTable == CycleSort \/ SetFilter

SpecTable == InitTable /\ [][NextTable]_vars

(***************************************************************************)
(* Two invocations of parseSearchTermsCsv that overlap: each is called     *)
(* with its file and waits for the text (await file.text()); when the text *)
(* arrives it runs to its end without waiting again.                       *)
(***************************************************************************)

MaxConcurrentRows == 2

ConcurrentRows == {
    <<<<"S","e","a","r","c","h"," ","t","e","r","m">>, <<"C","a","m","p","a","i","g","n">>, <<"C","o","s","t">>>>,
    <<<<"s","h","o","e","s">>, <<"B","r","a","n","d">>, <<"1">>>>,
    <<<<"T","o","t","a","l",":"," ","S","e","a","r","c","h">>, <<>>, <<"9">>>> }

ConcurrentFiles ==
    {[data |-> g, scanErrors |-> e.scan, headerErrors |-> e.header] :
        g \in UNION {[1..n -> ConcurrentRows] : n \in 0..MaxConcurrentRows},
        e \in {d \in DecodeErrors : d.scan = d.header}}

InitCalls ==
    /\ invFile \in {fs \in [Invocations -> ConcurrentFiles] : fs[1] # fs[2]}
    /\ invPc = [i \in Invocations |-> "idle"]
    /\ invReport = [i \in Invocations |-> noReport]
    /\ pc = "calls"
    /\ DetectIdle /\ ParseIdle /\ TotalsIdle /\ DateIdle /\ NumberIdle /\ TableIdle /\ AppIdle

\* The text an invocation is resumed with: file.text() of the file it was
\* called with, which it holds in its own parameter
textOfFirstCall(fs, i) == fs[1]

textOf(fs, i) == fs[i]

\* parseSearchTermsCsv(file) up to the await
Call(i) ==
    /\ invPc[i] = "idle"
    /\ invPc' = [invPc EXCEPT ![i] = "awaiting"]
    /\ UNCHANGED <<pc, invFile, invReport, detectVars, parseVars, totalsVars, dateVars, numberVars, tableVars, appVars>>

\* The text has been read: lines 17-104 in one run
Resume(i) ==
    /\ invPc[i] = "awaiting"
    /\ invReport' = [invReport EXCEPT ![i] = parseText(textOf(invFile, i)).report]
    /\ invPc' = [invPc EXCEPT ![i] = "done"]
    /\ UNCHANGED <<pc, invFile, detectVars, parseVars, totalsVars, dateVars, numberVars, tableVars, appVars>>

NextCalls == \E i \in Invocations : Call(i) \/ Resume(i)

SpecCalls == InitCalls /\ [][NextCalls]_vars

(***************************************************************************)
(* The application as a state machine: files are loaded (or fail to be     *)
(* read), the user changes the mode and the campaign, adds and removes     *)
(* whole terms and word chips from the rows shown, removes negatives and   *)
(* changes their match type in the panel.  After every render whose        *)
(* dependencies changed the effect on the selected campaign runs before    *)
(* the next event is handled.                                              *)
(***************************************************************************)

MaxAppRows == 2

\* The most negatives held at a time
MaxItems == 2

AppColumns == <<<<"S","e","a","r","c","h"," ","t","e","r","m">>, <<"C","a","m","p","a","i","g","n">>, <<"C","o","s","t">>>>

\* Rows of a file: the same term twice, in two letter cases and once
\* without a campaign; a campaign named as the sentinel is; a blank term; a
\* total row
AppCells == {
    <<<<"r","e","d"," ","h","a","t">>, <<"B","r","a","n","d">>, <<"1">>>>,
    <<<<"R","e","d"," ","H","a","t">>, <<>>, <<"2">>>>,
    <<<<"h","a","t"," ","b","o","x">>, <<"U","n","k","n","o","w","n"," ","c","a","m","p","a","i","g","n">>, <<"3">>>>,
    <<<<" ">>, <<"B","r","a","n","d">>, <<"4">>>>,
    <<<<"T","o","t","a","l",":"," ","S","e","a","r","c","h">>, <<>>, <<"9">>>> }

AppFiles ==
    {[data |-> <<AppColumns>> \o body, scanErrors |-> <<>>, headerErrors |-> <<>>] :
        body \in UNION {[1..n -> AppCells] : n \in 0..MaxAppRows}}

\* What parseSearchTermsCsv returns for the files
AppReports == {parseText(f).report : f \in AppFiles}

FileNames == {<<"t","e","r","m","s",".","c","s","v">>}

\* e.message of a file whose text cannot be read
ReadErrors == {<<"T","h","e"," ","f","i","l","e"," ","c","o","u","l","d"," ","n","o","t"," ","b","e"," ","r","e","a","d">>}

\* The texts of the word chips
Chips == {<<"h","a","t">>}

MatchTypes == {"exact", "phrase", "broad"}

\* A value of the campaign select that the list does not hold
staleCampaign == <<"O","l","d"," ","c","a","m","p","a","i","g","n">>

InitApp ==
    /\ state = initialState
    /\ memoCampaigns = campaignsOf(initialState)
    /\ effectPending = TRUE
    /\ pc = "app"
    /\ DetectIdle /\ ParseIdle /\ TotalsIdle /\ DateIdle /\ NumberIdle /\ TableIdle /\ CallsIdle

\* dispatch(action): the reducer runs, the component renders, which
\* computes the campaigns of the rows, and the effect is scheduled if one
\* of its dependencies changed
Dispatch(action) ==
    /\ \E next \in {reducer(state, action)} :
        \E names \in {campaignsOf(next)} :
            /\ state' = next
            /\ memoCampaigns' = names
            /\ effectPending' = (effectDeps(next, names) # effectDeps(state, memoCampaigns))
    /\ UNCHANGED nonAppVars

\* The room left for a negative
hasRoom == Cardinality(allItems(state)) < MaxItems

\* handleFile(file): parseSearchTermsCsv returns, or file.text() rejects
HandleFile ==
    /\ ~effectPending
    /\ \E name \in FileNames :
        \/ \E parsed \in AppReports :
                Dispatch([type |-> "REPORT_LOADED",
                          payload |-> [columns |-> parsed.columns, rows |-> parsed.rows,
                                       searchTermColumnName |-> parsed.searchTermColumnName,
                                       campaignColumnName |-> parsed.campaignColumnName,
                                       adGroupColumnName |-> parsed.adGroupColumnName,
                                       warnings |-> parsed.warnings, meta |-> parsed.meta,
                                       filename |-> name]])
        \/ \E e \in ReadErrors :
            Dispatch([type |-> "REPORT_ERROR", payload |-> [filename |-> name, error |-> e]])

\* onChangeMode: the mode select
OnChangeMode ==
    /\ ~effectPending
    /\ \E mode \in {"account", "campaign"} :
        Dispatch([type |-> "SET_MODE", payload |-> [mode |-> mode]])

\* onChangeCampaign: the campaign select, rendered in campaign mode
OnChangeCampaign ==
    /\ ~effectPending
    /\ state.ui.mode = "campaign"
    /\ \E campaign \in Range(memoCampaigns) \cup {staleCampaign} :
        Dispatch([type |-> "SET_SELECTED_CAMPAIGN", payload |-> [campaign |-> campaign]])

\* What onAddFullTerm(r.searchTerm, r.__rowId, r) dispatches for row i
addFullTerm(st, i) ==
    [type |-> "ADD_NEGATIVE",
     payload |-> [text |-> String(Get(st.report.rows[i], K_searchTerm)), rowId |-> Get(st.report.rows[i], K_rowId),
                  markRow |-> TRUE, matchType |-> "exact",
                  scope |-> st.ui.mode, campaign |-> String(Get(st.report.rows[i], K_campaign))]]

\* The + button of a data row
OnAddFullTerm ==
    /\ ~effectPending
    /\ \E i \in actionableRows(state) :
        LET r == state.report.rows[i]
        IN  /\ hasRoom \/ isInNegatives(state, String(Get(r, K_searchTerm)), r)
            /\ Dispatch(addFullTerm(state, i))

\* onRemoveFullTerm: the x button of a data row, disabled unless the term
\* is in the list the row is looked up in
OnRemoveFullTerm ==
    /\ ~effectPending
    /\ \E i \in actionableRows(state) :
        LET r == state.report.rows[i]
        IN  /\ isInNegatives(state, String(Get(r, K_searchTerm)), r)
            /\ Dispatch([type |-> "REMOVE_NEGATIVE_BY_TEXT",
                         payload |-> [text |-> String(Get(r, K_searchTerm)), rowId |-> Get(r, K_rowId),
                                      unmarkRow |-> TRUE,
                                      scope |-> state.ui.mode, campaign |-> String(Get(r, K_campaign))]])

\* onToggleWord(w, row): a click on a word chip of a data row; a chip is
\* part of the row's term
OnToggleWord ==
    /\ ~effectPending
    /\ \E i \in actionableRows(state), w \in Chips :
        LET r == state.report.rows[i]
        IN  /\ includes(normKey(String(Get(r, K_searchTerm))), normKey(w))
            /\ normKey(w) # <<>>
            /\ IF isInNegatives(state, w, r)
               THEN Dispatch([type |-> "REMOVE_NEGATIVE_BY_TEXT",
                              payload |-> [text |-> w, rowId |-> undefined, unmarkRow |-> FALSE,
                                           scope |-> state.ui.mode, campaign |-> String(Get(r, K_campaign))]])
               ELSE /\ hasRoom
                    /\ Dispatch([type |-> "ADD_NEGATIVE",
                                 payload |-> [text |-> w, rowId |-> undefined, markRow |-> FALSE,
                                              matchType |-> "broad",
                                              scope |-> state.ui.mode, campaign |-> String(Get(r, K_campaign))]])

\* onRemove(id): the x button of a negative of the panel
OnRemove ==
    /\ ~effectPending
    /\ \E k \in DOMAIN activeItems(state) :
        Dispatch([type |-> "REMOVE_NEGATIVE",
                  payload |-> [id |-> activeItems(state)[k].id,
                               scope |-> state.ui.mode, campaign |-> activeCampaign(state)]])

\* onChangeMatchType(id, matchType): the select of a negative of the panel
OnChangeMatchType ==
    /\ ~effectPending
    /\ \E k \in DOMAIN activeItems(state), matchType \in MatchTypes :
        Dispatch([type |-> "UPDATE_NEGATIVE_MATCH_TYPE",
                  payload |-> [id |-> activeItems(state)[k].id, matchType |-> matchType,
                               scope |-> state.ui.mode, campaign |-> activeCampaign(state)]])

\* The effect without its dispatch
keepSelectedCampaignAsIs(st, names) == st

\* The state after the effect "Keep selected campaign valid when report
\* changes" has run with campaigns = names
keepSelectedCampaignValid(st, names) ==
    IF st.ui.mode = "campaign" /\ ~\E k \in DOMAIN names : names[k] = st.ui.selectedCampaign
    THEN reducer(st, [type |-> "SET_SELECTED_CAMPAIGN", payload |-> [campaign |-> names[1]]])
    ELSE st

\* useEffect(..., [state.ui.mode, state.ui.selectedCampaign, campaigns.join("||")]):
\* the rows, and with them the campaigns, stay as they are
KeepSelectedCampaignValid ==
    /\ effectPending
    /\ state' = keepSelectedCampaignValid(state, memoCampaigns)
    /\ memoCampaigns' = memoCampaigns
    /\ effectPending' = (keepSelectedCampaignValid(state, memoCampaigns).ui.selectedCampaign
                            # state.ui.selectedCampaign)
    /\ UNCHANGED nonAppVars

NextApp ==
    \/ HandleFile
    \/ OnChangeMode
    \/ OnChangeCampaign
    \/ OnAddFullTerm
    \/ OnRemoveFullTerm
    \/ OnToggleWord
    \/ OnRemove
    \/ OnChangeMatchType
    \/ KeepSelectedCampaignValid

SpecApp == InitApp /\ [][NextApp]_vars

\* The effect is run by the scheduler of the UI library after every render
\* that changed its dependencies
SpecAppFair == SpecApp /\ WF_vars(KeepSelectedCampaignValid)

(***************************************************************************)
(* Claims about the Report                                                 *)
(***************************************************************************)

\* The row-kind tag and the identifier a row of the Report carries
rowType(row) == Get(row, K_rowType)

rowId(row) == Get(row, K_rowId)

\* The cells of the table row that row k of the Report was made from
sourceCells(k) == file.data[(IF headerRowIndex = -1 THEN 0 ELSE headerRowIndex) + 1 + origin[k]]

\* The number of table rows after the header
tableSize == IF file.data = <<>> THEN 0 ELSE Len(file.data) - 1 - (IF headerRowIndex = -1 THEN 0 ELSE headerRowIndex)

\* C1: the rows of the Report are the meta row (if any), then the data rows
\* in source order, then the total rows in bucket order; no total row
\* precedes a data row and no data row precedes the meta row, in header
\* mode and in simple mode.
C1_RowOrder ==
    pc = "done" =>
        \A i, j \in DOMAIN report.rows : i < j =>
            LET a == report.rows[i]
                b == report.rows[j]
            IN  /\ ~(rowType(a) = Str(T_total) /\ rowType(b) = Str(T_data))
                /\ ~(rowType(a) # Str(T_meta) /\ rowType(b) = Str(T_meta))
                /\ (rowType(a) = Str(T_data) /\ rowType(b) = Str(T_data) => origin[i] < origin[j])
                /\ (rowType(a) = Str(T_total) /\ rowType(b) = Str(T_total)
                        => compareTotals(a, b, report.searchTermColumnName) <= 0)

\* C6: every data or total row holds, under the name of each column, the raw
\* text of the cell at that column's position, also when two columns have
\* one name or a column is named like a derived or bookkeeping field.
C6_CellsVerbatim ==
    pc = "done" =>
        \A k \in DOMAIN report.rows : origin[k] # 0 =>
            \A i \in DOMAIN report.columns : i <= Len(sourceCells(k)) =>
                Get(report.rows[k], report.columns[i]) = Str(sourceCells(k)[i])

\* C7: the meta row has the identifier "meta-date-range"; the data and total
\* rows carry the identifiers 1..n, each once, the k-th table row of the file
\* the identifier k.
C7_RowIds ==
    pc = "done" =>
        /\ \A k \in DOMAIN report.rows :
            rowId(report.rows[k]) = IF origin[k] = 0 THEN Str(metaRowId) ELSE Num(origin[k])
        /\ \A n \in 1..tableSize :
            Cardinality({k \in DOMAIN report.rows : rowId(report.rows[k]) = Num(n)}) = 1
        /\ \A i, j \in DOMAIN report.rows : i # j => rowId(report.rows[i]) # rowId(report.rows[j])

\* C8: findHeaderRowIndex returns the smallest index of a row with at least
\* 3 cells of which one, normalized, is a search-term header key, and -1
\* exactly when there is no such row.
C8_HeaderRowIsFirstQualifying ==
    pc = "done" =>
        LET isKey(k) ==
                \/ k \in searchTermExactCandidates
                \/ (includes(k, <<"s","e","a","r","c","h">>) /\ (includes(k, <<"t","e","r","m">>) \/ includes(k, <<"q","u","e","r","y">>)))
                \/ /\ (includes(k, <<"u043F","u043E","u0438","u0441","u043A">>) \/ includes(k, <<"u043F","u043E","u0438","u0441","u043A","u043E","u0432">>))
                   /\ (includes(k, <<"u0437","u0430","u043F","u0440","u043E","u0441">>) \/ includes(k, <<"u0442","u0435","u0440","u043C","u0438","u043D">>) \/ includes(k, <<"u0444","u0440","u0430","u0437">>))
            qualifying == {i \in 0..(Len(file.data) - 1) :
                            /\ Len(file.data[i + 1]) >= 3
                            /\ \E c \in DOMAIN file.data[i + 1] :
                                isKey(toLowerCase(trim(stripBom(file.data[i + 1][c]))))}
        IN  IF qualifying = {} THEN headerRowIndex = -1
            ELSE headerRowIndex \in qualifying /\ \A i \in qualifying : headerRowIndex <= i

\* A file whose first row holds a search-term key in fewer than 3 cells and
\* which has two rows that qualify: the earlier of the two is the header row
C8_Witness ==
    /\ pc = "done"
    /\ Len(file.data) = 3
    /\ Len(file.data[1]) < 3
    /\ \E c \in DOMAIN file.data[1] : isSearchTermHeaderKey(normalizeHeader(file.data[1][c]))
    /\ \A r \in 2..3 :
        /\ Len(file.data[r]) >= 3
        /\ \E c \in DOMAIN file.data[r] : isSearchTermHeaderKey(normalizeHeader(file.data[r][c]))
    /\ headerRowIndex = 1

\* C10: a table row is tagged total if and only if its search-term value,
\* trimmed and lower-cased, starts with "total:" or a Russian equivalent, and
\* data otherwise; only the date-range row is tagged meta.
C10_RowTags ==
    pc = "done" =>
        \A k \in DOMAIN report.rows :
            LET row == report.rows[k]
                term == toLowerCase(trim(String(Get(row, K_searchTerm))))
                isTotal == startsWith(term, <<"t","o","t","a","l",":">>) \/ startsWith(term, <<"u0438","u0442","u043E","u0433","u043E",":">>) \/ startsWith(term, <<"u0432","u0441","u0435","u0433","u043E",":">>)
            IN  /\ origin[k] # 0 => rowType(row) = Str(IF isTotal THEN T_total ELSE T_data)
                /\ rowType(row) = Str(T_meta) => origin[k] = 0

\* The rows of the Report tagged meta
metaIndices == {k \in DOMAIN report.rows : rowType(report.rows[k]) = Str(T_meta)}

\* C11: the Report holds a row tagged meta if and only if meta.dateRange is
\* not null; there is at most one such row, it is the first row, its
\* searchTerm field and its cell under the search-term column are
\* meta.dateRange, its campaign and adGroup are empty.  In simple mode there
\* is no meta row, preambleLines is empty and dateRange is null.
C11_MetaRow ==
    pc = "done" =>
        /\ (metaIndices # {}) <=> (report.meta.dateRange # null)
        /\ Cardinality(metaIndices) <= 1
        /\ \A k \in metaIndices :
            /\ k = 1
            /\ Get(report.rows[k], K_searchTerm) = Str(report.meta.dateRange)
            /\ Get(report.rows[k], report.searchTermColumnName) = Str(report.meta.dateRange)
            /\ Get(report.rows[k], K_campaign) = Str(<<>>)
            /\ Get(report.rows[k], K_adGroup) = Str(<<>>)
        /\ headerRowIndex = -1 =>
            /\ metaIndices = {}
            /\ report.meta.preambleLines = <<>>
            /\ report.meta.dateRange = null

\* C13: the columns of the Report are never empty, also for an empty text,
\* for a text without a header row and for a text whose pass with header
\* yields no fields.
C13_ColumnsNonEmpty ==
    pc = "done" => Len(report.columns) >= 1

\* The empty text: no row, no field, and the one column "Search term"
C13_Witness ==
    /\ pc = "done"
    /\ file.data = <<>>
    /\ headerRowIndex = -1
    /\ report.columns = <<defaultSearchTerm>>

(***************************************************************************)
(* Claims about sortTotals                                                 *)
(***************************************************************************)

\* The rank of a bucket in the priority list of the totals
bucketPriority(bucket) ==
    CASE bucket = <<"p","e","r","f","o","r","m","a","n","c","e"," ","m","a","x">> -> 0
      [] bucket = <<"d","i","s","p","l","a","y">> -> 1
      [] bucket = <<"d","e","m","a","n","d"," ","g","e","n">> -> 2
      [] bucket = <<"a","c","c","o","u","n","t">> -> 3
      [] bucket = <<"f","i","l","t","e","r","e","d"," ","s","e","a","r","c","h"," ","t","e","r","m","s">> -> 4
      [] bucket = <<"s","e","a","r","c","h">> -> 5
      [] OTHER -> 6

labelOf(row) == String(Get(row, totalsSearchTermCol))

\* C9: sortTotals returns a permutation of its input in which the priority
\* rank never decreases, rows of one rank are in ascending order of bucket
\* text, and rows equal on both keep their input order; "Total: Performance
\* Max" precedes "Total: Search" and an unknown bucket follows every known
\* one.
C9_SortTotals ==
    pc = "sorted" =>
        LET n == Len(totalsIn)
            src(k) == rowId(orderedTotals[k]).num
            bucket(k) == totalBucket(labelOf(orderedTotals[k]))
        IN  /\ Len(orderedTotals) = n
            /\ \A k \in 1..n : src(k) \in 1..n /\ orderedTotals[k] = totalsIn[src(k)]
            /\ \A i, j \in 1..n : i < j =>
                /\ src(i) # src(j)
                /\ bucketPriority(bucket(i)) <= bucketPriority(bucket(j))
                /\ bucketPriority(bucket(i)) = bucketPriority(bucket(j))
                        => localeCompare(bucket(i), bucket(j)) <= 0
                /\ bucketPriority(bucket(i)) = bucketPriority(bucket(j)) /\ localeCompare(bucket(i), bucket(j)) = 0
                        => src(i) < src(j)
                /\ ~(labelOf(orderedTotals[i]) = <<"T","o","t","a","l",":"," ","S","e","a","r","c","h">> /\ labelOf(orderedTotals[j]) = <<"T","o","t","a","l",":"," ","P","e","r","f","o","r","m","a","n","c","e"," ","M","a","x">>)
                /\ ~(bucketPriority(bucket(i)) = 6 /\ bucketPriority(bucket(j)) < 6)

\* Three rows handed over out of order: an unknown bucket first, and two
\* rows of the bucket "search" under labels that differ, which keep their
\* order behind "Total: Performance Max"
C9_Witness ==
    /\ pc = "sorted"
    /\ Len(totalsIn) = 3
    /\ orderedTotals # totalsIn
    /\ bucketPriority(totalBucket(labelOf(totalsIn[1]))) = 6
    /\ \E i, j \in 1..3 :
        /\ i < j
        /\ labelOf(orderedTotals[i]) # labelOf(orderedTotals[j])
        /\ totalBucket(labelOf(orderedTotals[i])) = totalBucket(labelOf(orderedTotals[j]))
        /\ rowId(orderedTotals[i]).num < rowId(orderedTotals[j]).num

(***************************************************************************)
(* Claims about extractDateRange                                           *)
(***************************************************************************)

\* The least element of a non-empty set of positions
first(S) == CHOOSE i \in S : \A j \in S : i <= j

\* C12: extractDateRange returns the first line with two dates and a dash
\* between them, also when a line with only a year and a dash comes
\* earlier; without such a line the first line with a year of 4 digits and
\* a dash; without that null.  The line is returned as it was handed over.
C12_StrictBeforeLoose ==
    pc = "extracted" =>
        LET strict == {i \in DOMAIN preamble : preamble[i] \in StrictDateLines}
            loose == {i \in DOMAIN preamble : preamble[i] \in LooseDateLines}
        IN  IF strict # {} THEN extracted = preamble[first(strict)]
            ELSE IF loose # {} THEN extracted = preamble[first(loose)]
            ELSE extracted = null

\* A line with a year and a dash, then two different lines with two dates:
\* the first of the two is returned
C12_Witness ==
    /\ pc = "extracted"
    /\ Len(preamble) = 3
    /\ preamble[1] \in LooseDateLines
    /\ preamble[2] \in StrictDateLines
    /\ preamble[3] \in StrictDateLines
    /\ preamble[2] # preamble[3]
    /\ extracted = preamble[2]

(***************************************************************************)
(* Claims about the column roles of the Report                             *)
(***************************************************************************)

\* The column names the detection functions were given: the columns of the
\* Report, but for the empty text, whose Report has a synthesized column
detectedColumns == IF file.data = <<>> THEN <<>> ELSE report.columns

\* C14: the search-term column is the first column whose normalized name is
\* in the dictionary, else the first that holds "search" and "term" or
\* "query", else the first that holds a Russian stem of "search" and one of
\* "query", "term", "phrase", else the first column, and "Search term" for
\* no columns: never null.  The campaign (ad group) column is null exactly
\* when no column is in the exact set or holds the substrings, and then the
\* campaign (adGroup) field of every row is the empty string.
C14_FieldResolution ==
    pc = "done" =>
        LET cols == detectedColumns
            key(i) == toLowerCase(trim(cols[i]))
            has(i, sub) == includes(key(i), sub)
            exact == {i \in DOMAIN cols : key(i) \in searchTermExactCandidates}
            en == {i \in DOMAIN cols : has(i, <<"s","e","a","r","c","h">>) /\ (has(i, <<"t","e","r","m">>) \/ has(i, <<"q","u","e","r","y">>))}
            ru == {i \in DOMAIN cols :
                    /\ (has(i, <<"u043F","u043E","u0438","u0441","u043A">>) \/ has(i, <<"u043F","u043E","u0438","u0441","u043A","u043E","u0432">>))
                    /\ (has(i, <<"u0437","u0430","u043F","u0440","u043E","u0441">>) \/ has(i, <<"u0442","u0435","u0440","u043C","u0438","u043D">>) \/ has(i, <<"u0444","u0440","u0430","u0437">>))}
            campaignCols == {i \in DOMAIN cols :
                    \/ key(i) \in campaignExactCandidates
                    \/ has(i, <<"c","a","m","p","a","i","g","n">>) \/ has(i, <<"u043A","u0430","u043C","u043F","u0430","u043D">>)}
            adGroupCols == {i \in DOMAIN cols :
                    \/ key(i) \in adGroupExactCandidates
                    \/ has(i, <<"a","d"," ","g","r","o","u","p">>) \/ has(i, <<"a","d","g","r","o","u","p">>)
                    \/ (has(i, <<"u0433","u0440","u0443","u043F","u043F">>) /\ has(i, <<"u043E","u0431","u044A","u044F","u0432">>))}
        IN  /\ report.searchTermColumnName # null
            /\ report.searchTermColumnName =
                    IF cols = <<>> THEN <<"S","e","a","r","c","h"," ","t","e","r","m">>
                    ELSE IF exact # {} THEN cols[first(exact)]
                    ELSE IF en # {} THEN cols[first(en)]
                    ELSE IF ru # {} THEN cols[first(ru)]
                    ELSE cols[1]
            /\ (report.campaignColumnName = null) <=> (campaignCols = {})
            /\ (report.adGroupColumnName = null) <=> (adGroupCols = {})
            /\ report.campaignColumnName # null => report.campaignColumnName \in {cols[i] : i \in campaignCols}
            /\ report.adGroupColumnName # null => report.adGroupColumnName \in {cols[i] : i \in adGroupCols}
            /\ report.campaignColumnName = null =>
                    \A k \in DOMAIN report.rows : Get(report.rows[k], K_campaign) = Str(<<>>)
            /\ report.adGroupColumnName = null =>
                    \A k \in DOMAIN report.rows : Get(report.rows[k], K_adGroup) = Str(<<>>)

\* A file whose columns match by substring only: the search term by the
\* English heuristic, the ad group by "ad group" inside its name, no
\* campaign column, and two rows with an empty campaign
C14_Witness ==
    /\ pc = "done"
    /\ Len(file.data) = 3
    /\ report.columns = <<<<"A","d"," ","g","r","o","u","p"," ","I","D">>, <<"U","s","e","r"," ","s","e","a","r","c","h"," ","q","u","e","r","y">>>>
    /\ report.searchTermColumnName = <<"U","s","e","r"," ","s","e","a","r","c","h"," ","q","u","e","r","y">>
    /\ report.adGroupColumnName = <<"A","d"," ","g","r","o","u","p"," ","I","D">>
    /\ report.campaignColumnName = null
    /\ Len(report.rows) = 2
    /\ \A k \in DOMAIN report.rows : Get(report.rows[k], K_campaign) = Str(<<>>)

(***************************************************************************)
(* Claims about parseMetricNumber                                          *)
(***************************************************************************)

\* The characters of the cell that are digits, ".", "," or "-", in order
kept == filter(cell.str, {i \in DOMAIN cell.str : cell.str[i] \in Digits \cup {".", ",", "-"}})

\* The cell is one of the texts that stand for no value
isBlankCell == trim(cell.str) \in {<<>>, <<"u2014">>, <<"-">>}

\* The kept characters without a leading minus
unsignedPart == IF kept # <<>> /\ kept[1] = "-" THEN Tail(kept) ELSE kept

\* The digits among the characters of unsignedPart at the positions from..to
digitsBetween(from, to) ==
    filter(SubSeq(unsignedPart, from, to), {i \in 1..(to - from + 1) : unsignedPart[from + i - 1] \in Digits})

\* The number with the digits before position p of unsignedPart as its
\* integer part and the digits after p as its fraction
pointAt(p) ==
    Finite(kept[1] = "-",
           digitsValue(digitsBetween(1, p - 1) \o digitsBetween(p + 1, Len(unsignedPart))),
           Len(digitsBetween(p + 1, Len(unsignedPart))))

\* The number of all digits of unsignedPart, without a fraction
allDigits == Finite(kept[1] = "-", digitsValue(digitsBetween(1, Len(unsignedPart))), 0)

\* The greatest element of a non-empty set of positions
final(S) == CHOOSE i \in S : \A j \in S : j <= i

C16_MissingOrFinite ==
    pc = "parsed" =>
        /\ metricNumber.kind \in {"finite", "-Infinity"}
        /\ metricNumber.kind = "-Infinity" => metricNumber = NEGATIVE_INFINITY
        /\ cell.type \in {"null", "undefined"} => metricNumber = NEGATIVE_INFINITY
        /\ cell.type = "string" =>
            /\ isBlankCell => metricNumber = NEGATIVE_INFINITY
            /\ Range(cell.str) \cap Digits = {} => metricNumber = NEGATIVE_INFINITY
            /\ (~isBlankCell /\ unsignedPart # <<>> /\ unsignedPart[1] \in Digits)
                    => metricNumber.kind = "finite"

\* A text that is not blank and holds no digit: the euro sign alone
C16_Witness ==
    /\ pc = "parsed"
    /\ cell = Str(<<"u20AC">>)
    /\ metricNumber = NEGATIVE_INFINITY

(***************************************************************************)
(* Claims about the sort of the report table                               *)
(***************************************************************************)

\* The positions of the data rows among the rows shown
shownData == {k \in DOMAIN visible : rowTypeOrData(visible[k]) \notin {T_meta, T_total}}

\* The metric value of the k-th row shown, under the column sorted by
shownValue(k) == parseMetricNumber(Get(visible[k], metrics[roleOf(sortKey)]))

\* The position in the rows given to the table of the k-th row shown
positionOf(k) == CHOOSE p \in DOMAIN propRows : propRows[p] = visible[k]

\* C17: when the data rows are sorted by a metric, every row whose value is
\* missing comes after every row with a number, ascending and descending
\* alike; the rows with a number are in the order of their values in the
\* direction chosen; rows with missing values keep their relative order.
\* The rows sorted are the data rows that pass the filter, each once.
C17_MissingLast ==
    sortKey # "none" =>
        /\ \A i, j \in shownData : i < j =>
            /\ ~(shownValue(i) = NEGATIVE_INFINITY /\ shownValue(j) # NEGATIVE_INFINITY)
            /\ (shownValue(i) # NEGATIVE_INFINITY /\ shownValue(j) # NEGATIVE_INFINITY) =>
                    IF sortDir = "asc" THEN ~greater(shownValue(i), shownValue(j))
                    ELSE ~greater(shownValue(j), shownValue(i))
            /\ (shownValue(i) = NEGATIVE_INFINITY /\ shownValue(j) = NEGATIVE_INFINITY) =>
                    positionOf(i) < positionOf(j)
        /\ {visible[k] : k \in shownData} =
                {propRows[p] : p \in {n \in DOMAIN propRows :
                    /\ rowTypeOrData(propRows[n]) \notin {T_meta, T_total}
                    /\ \/ trim(filterText) = <<>>
                       \/ includes(toLowerCase(String(Get(propRows[n], K_searchTerm))), toLowerCase(trim(filterText)))
                       \/ includes(toLowerCase(String(Get(propRows[n], K_campaign))), toLowerCase(trim(filterText)))}}
        /\ \A i, j \in shownData : i # j => visible[i] # visible[j]

\* Ascending by cost over three data rows, the first two without a value:
\* the row with a number is shown first, the other two in their order
C17_Witness ==
    /\ sortKey = "cost"
    /\ sortDir = "asc"
    /\ filterText = <<>>
    /\ Len(propRows) = 3
    /\ \A p \in 1..3 : rowTypeOrData(propRows[p]) = T_data
    /\ String(Get(propRows[1], <<"C","o","s","t">>)) = <<"u2014">>
    /\ String(Get(propRows[2], <<"C","o","s","t">>)) = <<>>
    /\ String(Get(propRows[3], <<"C","o","s","t">>)) = <<"1","0">>
    /\ visible = <<propRows[3], propRows[1], propRows[2]>>

(***************************************************************************)
(* Claims about the warnings of the Report                                 *)
(***************************************************************************)

\* The warning that carries the first message of a pass with errors
warningOf(errors) ==
    IF errors = <<>> THEN <<>> ELSE <<<<"C","S","V"," ","p","a","r","s","e"," ","w","a","r","n","i","n","g",":"," ">> \o errors[1].message>>

\* C18: whatever the decoder reports, the Report is returned with the
\* columns and the table rows of the file; a pass that reports errors adds
\* one warning with the message of its first error, a pass without errors
\* adds none, and a header row that is not found adds none.  The pass with
\* header runs only when no header row is found.
C18_Warnings ==
    pc = "done" =>
        /\ report.warnings =
                warningOf(file.scanErrors) \o
                (IF headerRowIndex = -1 THEN warningOf(file.headerErrors) ELSE <<>>)
        /\ Len(report.columns) >= 1
        /\ Cardinality({k \in DOMAIN report.rows : origin[k] # 0}) = tableSize

\* No header row, both passes report two errors: two warnings, and the two
\* table rows are in the Report
C18_Witness ==
    /\ pc = "done"
    /\ headerRowIndex = -1
    /\ Len(file.scanErrors) = 2
    /\ Len(file.headerErrors) = 2
    /\ report.warnings = <<<<"C","S","V"," ","p","a","r","s","e"," ","w","a","r","n","i","n","g",":"," ","Q","u","o","t","e","d"," ","f","i","e","l","d"," ","u","n","t","e","r","m","i","n","a","t","e","d">>,
                           <<"C","S","V"," ","p","a","r","s","e"," ","w","a","r","n","i","n","g",":"," ","Q","u","o","t","e","d"," ","f","i","e","l","d"," ","u","n","t","e","r","m","i","n","a","t","e","d">>>>
    /\ Len(file.data) = 3
    /\ Len(report.rows) = 2

(***************************************************************************)
(* Claims about overlapping invocations                                    *)
(***************************************************************************)

C27_RolesDistinct ==
    pc = "detected" =>
        \A r1, r2 \in Roles :
            r1 # r2 /\ metrics[r1] # null => metrics[r1] # metrics[r2]

(***************************************************************************)
(* Claims about the segments of the rows shown                             *)
(***************************************************************************)

\* The positions, in the rows given to the table, of the rows of one kind
\* ("data": every row that is neither meta nor total, as the table reads the
\* tag)
propPositions(kind) ==
    {p \in DOMAIN propRows :
        LET t == String(Get(propRows[p], K_rowType))
        IN  IF kind = T_data THEN t \notin {T_meta, T_total} ELSE t = kind}

\* The data rows given to the table that pass the filter text, in the order
\* given
matchingData ==
    LET q == toLowerCase(trim(filterText))
    IN  filter(propRows, {p \in propPositions(T_data) :
            \/ q = <<>>
            \/ includes(toLowerCase(String(Get(propRows[p], K_searchTerm))), q)
            \/ includes(toLowerCase(String(Get(propRows[p], K_campaign))), q)})

\* s holds the elements of t, each as often as t holds it
isPermutation(s, t) ==
    /\ Len(s) = Len(t)
    /\ \A i \in DOMAIN t :
        Cardinality({k \in DOMAIN s : s[k] = t[i]}) = Cardinality({k \in DOMAIN t : t[k] = t[i]})

\* The rows shown are every meta row in the order given, then the data rows
\* that pass the filter, then every total row in the order given
shownInSegments ==
    LET metaRows == filter(propRows, propPositions(T_meta))
        totalRows == filter(propRows, propPositions(T_total))
        n == Len(visible)
        middle == SubSeq(visible, Len(metaRows) + 1, n - Len(totalRows))
    IN  /\ n = Len(metaRows) + Len(matchingData) + Len(totalRows)
        /\ SubSeq(visible, 1, Len(metaRows)) = metaRows
        /\ SubSeq(visible, n - Len(totalRows) + 1, n) = totalRows
        /\ IF sortKey # "none" /\ sortDir # "none" /\ truthy(metrics[roleOf(sortKey)])
           THEN isPermutation(middle, matchingData)
           ELSE middle = matchingData

\* C21: for every Report and every filter text, sort key and sort direction,
\* the rows shown are all meta rows first, unfiltered and in the Report's
\* order, then the data rows that pass the filter (in source order when no
\* sort is on, reordered when one is), then all total rows, unfiltered and
\* in the Report's order; no click and no filter text changes the rows the
\* table was given.
C21_SegmentsKept ==
    /\ []shownInSegments
    /\ [][propRows' = propRows]_vars

\* Clicks descending under the filter text "sh": the two data rows pass the
\* filter and are exchanged by the sort; the meta row and the total row,
\* neither of which holds "sh", are shown first and last
C21_Witness ==
    /\ filterText = <<"s","h">>
    /\ sortKey = "clicks"
    /\ sortDir = "desc"
    /\ Len(propRows) = 4
    /\ String(Get(propRows[1], K_rowType)) = T_meta
    /\ String(Get(propRows[4], K_rowType)) = T_total
    /\ ~matchesFilter(propRows[1], <<"s","h">>)
    /\ ~matchesFilter(propRows[4], <<"s","h">>)
    /\ visible = <<propRows[1], propRows[3], propRows[2], propRows[4]>>

(***************************************************************************)
(* Claims about the negatives of the application                           *)
(***************************************************************************)

\* The campaigns that occur in the file: the names its data rows carry
realCampaigns(rows) ==
    {trim(String(Get(rows[i], K_campaign))) : i \in {n \in DOMAIN rows : rowTypeOrData(rows[n]) = T_data}} \ {<<>>}

\* The data rows shown that carry no campaign
emptyCampaignRows(st) ==
    {i \in actionableRows(st) : trim(String(Get(st.report.rows[i], K_campaign))) = <<>>}

\* C22: a negative added in campaign scope from a row with an empty
\* campaign is not stored in the list of a campaign that occurs in the
\* file: the step leaves the list of every such campaign as it was.
C22_SentinelApart ==
    [][\A i \in emptyCampaignRows(state) :
            state.ui.mode = "campaign" /\ state' = reducer(state, addFullTerm(state, i))
            => \A c \in realCampaigns(state.report.rows) :
                    listOf(state'.negatives.byCampaign, c) = listOf(state.negatives.byCampaign, c)]_vars

\* names.includes(state.ui.selectedCampaign)
selectionValid(st, names) == \E k \in DOMAIN names : names[k] = st.ui.selectedCampaign

\* The mode is "campaign" and the selected campaign is not in the list
selectionStale == state.ui.mode = "campaign" /\ ~selectionValid(state, memoCampaigns)

\* C23: whenever the mode is "campaign" and the selected campaign is not in
\* the campaign list of the report's rows, no handler of a user's action
\* runs before the effect does, and the selected campaign eventually is the
\* first element of the list; and a SET_MODE to "campaign" leaves the
\* selected campaign in the list.
C23_SelectionKeptValid ==
    /\ [](memoCampaigns = extractCampaigns(state.report.rows))
    /\ [](selectionStale => effectPending)
    /\ selectionStale ~> (/\ state.ui.mode = "campaign"
                          /\ state.ui.selectedCampaign = memoCampaigns[1]
                          /\ selectionValid(state, memoCampaigns))
    /\ [][state' = reducer(state, [type |-> "SET_MODE", payload |-> [mode |-> "campaign"]])
            => selectionValid(state', extractCampaigns(state'.report.rows))]_vars

\* The report failed to load in campaign mode, which emptied the selection,
\* and the effect has selected the first campaign of the list
C23_Witness ==
    /\ state.ui.mode = "campaign"
    /\ state.report.error # null
    /\ state.ui.selectedCampaign = UNKNOWN_CAMPAIGN
    /\ memoCampaigns = <<UNKNOWN_CAMPAIGN>>
    /\ ~effectPending

\* The text is in the account list or in the list of some campaign
inSomeList(st, txt) ==
    \/ existsInList(st.negatives.items, txt)
    \/ \E c \in DOMAIN st.negatives.byCampaign : existsInList(st.negatives.byCampaign[c], txt)

\* C24: every row identifier in markedRowIds is that of a row of the report
\* whose full search term is in the account list or in a campaign's list.
C24_MarkedAreListed ==
    \A id \in state.ui.markedRowIds :
        \E i \in DOMAIN state.report.rows :
            /\ Get(state.report.rows[i], K_rowId) = id
            /\ inSomeList(state, String(Get(state.report.rows[i], K_searchTerm)))

\* The account list and the list of every campaign
allLists(st) == {st.negatives.items} \cup {st.negatives.byCampaign[c] : c \in DOMAIN st.negatives.byCampaign}

\* No two items of the list have texts equal after trimming and lower-casing
noTwoAlike(list) == \A j, k \in DOMAIN list : j # k => normKey(list[j].text) # normKey(list[k].text)

\* The texts an ADD_NEGATIVE may carry: the terms of the rows, the chips and
\* the texts held, as they are and in lower case, and a text of blanks
addTexts(st) ==
    LET held == {String(Get(st.report.rows[i], K_searchTerm)) : i \in DOMAIN st.report.rows}
                    \cup Chips \cup {x.text : x \in allItems(st)}
    IN  held \cup {toLowerCase(t) : t \in held} \cup {<<>>, <<" ", " ">>}

\* The payloads of ADD_NEGATIVE with these texts, every match type or
\* none, either scope or none, and the campaign of a row or none
addPayloads(st) ==
    {[text |-> t, rowId |-> undefined, markRow |-> FALSE, matchType |-> m, scope |-> s, campaign |-> c] :
        t \in addTexts(st), m \in MatchTypes \cup {"none"}, s \in {"account", "campaign", "none"},
        c \in {String(Get(st.report.rows[i], K_campaign)) : i \in DOMAIN st.report.rows} \cup {<<>>}}

\* The list an ADD_NEGATIVE with the payload is for
targetList(st, payload) ==
    IF scopeOf(st, payload) = "campaign"
    THEN listOf(st.negatives.byCampaign, normCampaignName(payload.campaign))
    ELSE st.negatives.items

\* C25: no list holds two items whose texts are equal after trimming and
\* lower-casing; an ADD_NEGATIVE of a text the target list holds, in any
\* letter case and with any match type, leaves the list as it is; an
\* ADD_NEGATIVE of an empty or blank text leaves the state as it is; and no
\* step changes the text of an item.
C25_NoTwoAlike ==
    /\ [](\A list \in allLists(state) : noTwoAlike(list))
    /\ [](\A payload \in addPayloads(state) :
            /\ existsInList(targetList(state, payload), payload.text)
                => targetList(reducer(state, [type |-> "ADD_NEGATIVE", payload |-> payload]), payload)
                    = targetList(state, payload)
            /\ trim(payload.text) = <<>>
                => reducer(state, [type |-> "ADD_NEGATIVE", payload |-> payload]) = state)
    /\ [][\A x \in allItems(state), y \in allItems(state') : x.id = y.id => x.text = y.text]_vars

\* The + of two rows whose terms differ in letter case only was pressed in
\* account mode: both rows are marked, and the list holds the term once
C25_Witness ==
    /\ state.ui.mode = "account"
    /\ Len(state.report.rows) = 2
    /\ String(Get(state.report.rows[1], K_searchTerm)) # String(Get(state.report.rows[2], K_searchTerm))
    /\ state.ui.markedRowIds = {Get(state.report.rows[1], K_rowId), Get(state.report.rows[2], K_rowId)}
    /\ Len(state.negatives.items) = 1
    /\ existsInList(state.negatives.items, String(Get(state.report.rows[1], K_searchTerm)))
    /\ existsInList(state.negatives.items, String(Get(state.report.rows[2], K_searchTerm)))

\* The scopes and campaigns a payload may carry: either scope or none, the
\* campaign of a row, the selected campaign or none
payloadScopes == {"account", "campaign", "none"}

payloadCampaigns(st) ==
    {String(Get(st.report.rows[i], K_campaign)) : i \in DOMAIN st.report.rows} \cup {st.ui.selectedCampaign, <<>>}

\* The identifiers of the negatives held, and one that no negative has
payloadIds(st) == {x.id : x \in allItems(st)} \cup {randomUUID(st)}

\* The actions on the negatives that may be dispatched in the state
negativeActions(st) ==
    {[type |-> "ADD_NEGATIVE", payload |-> p] : p \in addPayloads(st)}
    \cup {[type |-> "REMOVE_NEGATIVE_BY_TEXT",
           payload |-> [text |-> t, rowId |-> undefined, unmarkRow |-> FALSE, scope |-> s, campaign |-> c]] :
            t \in addTexts(st), s \in payloadScopes, c \in payloadCampaigns(st)}
    \cup {[type |-> "REMOVE_NEGATIVE", payload |-> [id |-> n, scope |-> s, campaign |-> c]] :
            n \in payloadIds(st), s \in payloadScopes, c \in payloadCampaigns(st)}
    \cup {[type |-> "UPDATE_NEGATIVE_MATCH_TYPE",
           payload |-> [id |-> n, matchType |-> m, scope |-> s, campaign |-> c]] :
            n \in payloadIds(st), m \in MatchTypes, s \in payloadScopes, c \in payloadCampaigns(st)}

\* The campaigns whose lists differ between two states
changedLists(st, next) ==
    {c \in DOMAIN st.negatives.byCampaign \cup DOMAIN next.negatives.byCampaign :
        listOf(st.negatives.byCampaign, c) # listOf(next.negatives.byCampaign, c)}

\* What the action on the negatives leaves alone
framed(st, action, next) ==
    /\ next.report = st.report
    /\ next.ui.mode = st.ui.mode
    /\ next.ui.selectedCampaign = st.ui.selectedCampaign
    /\ IF scopeOf(st, action.payload) = "campaign"
       THEN /\ next.negatives.items = st.negatives.items
            /\ changedLists(st, next) \subseteq {normCampaignName(action.payload.campaign)}
       ELSE changedLists(st, next) = {}

\* C26: ADD_NEGATIVE, REMOVE_NEGATIVE_BY_TEXT, REMOVE_NEGATIVE and
\* UPDATE_NEGATIVE_MATCH_TYPE in campaign scope for a campaign change at most
\* the list of that campaign (normalized, the unknown-campaign list for an
\* empty name) and leave the account list and the list of every other
\* campaign as they are; in account scope they leave the list of every
\* campaign as it is; none of them changes the report, the mode or the
\* selected campaign.
C26_ScopesApart ==
    \A action \in negativeActions(state) : framed(state, action, reducer(state, action))

\* The same text is in the account list and was added to and taken out of
\* the list of the campaign selected
C26_Witness ==
    /\ state.ui.mode = "campaign"
    /\ Len(state.negatives.items) = 1
    /\ activeCampaign(state) \in DOMAIN state.negatives.byCampaign
    /\ activeItems(state) = <<>>
    /\ \E i \in actionableRows(state) :
            existsInList(state.negatives.items, String(Get(state.report.rows[i], K_searchTerm)))

====
